---- MODULE Spec2Model ----
(***************************************************************************)
(* ipums2db: the row-processing pipeline of cmd/main.go.                   *)
(*                                                                         *)
(*   job maker --jobStream--> parsers --parsedBlockStream--> writers       *)
(*                                                                         *)
(* Sizes (bytes of the fixed-width file) are counted in abstract units:    *)
(* the two ceilings of the source, maxBytesofDatFileInMemory (100 MiB) and *)
(* maxBytesPerFile (10 GiB), are each scaled down to a few units, so that  *)
(* runs with several jobs and several insertion files stay small.          *)
(***************************************************************************)
EXTENDS Integers, Sequences, FiniteSets, Bags, TLC

(* ---- bounds of the model ---- *)
MaxTotBytes == 4     \* largest size of the .dat file in a run of main
MaxRowBytes == 2     \* largest bytesPerRow
MaxCallBytes == 8    \* largest totBytes and maxBytesPerJob of a direct call of MakeParsingJobsStream
MaxCPU == 2          \* largest runtime.NumCPU()
MaxFaults == 2       \* most I/O faults (open, read or parse, write) met by the goroutines of a run
MaxSetupBytes == 7   \* largest size of the .dat file in a run of the setup phase alone
MaxEncRows == 2      \* most rows of a call of BulkInsert
MaxFreeCols == 3     \* most data columns of a line that take every value
MaxRunBytes == 9     \* largest size of the .dat file in a run of the row-processing phase alone

(* ---- constants of the program (scaled, see above) ---- *)
maxBytesofDatFileInMemory == 8
maxBytesPerFile == 3
MINPARSERS == 2
MAXPARSERS == 5

VARIABLES
    makeItDir,      \* -d flag
    pc,             \* main goroutine: the call it is about to make
    totBytes,       \* TotalBytes(datFileName)
    bytesPerRow,    \* BytesPerRow(&ddi)
    dw,             \* DumpWriter: [SchemaFile, OutFiles]
    maxBperJob, nParsers, nBuffRes,   \* JobConfig
    dirExists,      \* the output directory exists
    fexists,        \* files of the run that exist on disk
    fopen,          \* files whose *os.File handle is open
    content,        \* content[f]: what has been written to file f, in order
    jmpc, jmErr, onRow,               \* job maker goroutine
    jobClosed,      \* jobStream is closed
    sent,           \* ParsingJobs sent on jobStream so far, in order
    ppc, pres,      \* parser goroutines: position, ParsedResult in hand
    parsedStream,   \* buffered channel parsedBlockStream
    parsedClosed,   \* parsedBlockStream is closed
    cpc,            \* the goroutine that closes parsedBlockStream
    wpc, wres, wk,  \* writer goroutines: position, block in hand, FileCleanup index
    werr,           \* writer goroutines: the error writeToDump returned
    taken,          \* bag of the ParsingJobs received from jobStream
    published,      \* bag of the Blocks sent on parsedBlockStream
    received,       \* bag of the Blocks received from parsedBlockStream
    exited, exitCode, exitMsg,        \* os.Exit / return from main
    faults,         \* number of I/O faults met by the goroutines so far
    ddi,            \* BulkInsert: ddi.Vars, the variables of the data dictionary
    input,          \* BulkInsert: the bytes ReadAt read from the file
    buffer,         \* BulkInsert: buffer, the array the row slices share
    lineAt,         \* BulkInsert: i, the offset of the row in buffer
    varAt,          \* insertTuple: the variable the loop is at
    insertStatement,\* insertTuple: the strings.Builder
    dat,            \* BulkInsert: the tuples made so far
    emitted,        \* insertTuple: for each value written, the slice it was made of
    epc,            \* BulkInsert: position
    bulkInsertStatement, bulkErr,  \* BulkInsert: the values returned
    dbfmtr,         \* WriteDDL: the DatabaseFormatter, [DbType, TableName]
    indices,        \* WriteDDL: the columns asked for with -i
    tableSQL, refTablesSQL, idxSQL,   \* WriteDDL: the three parts of the DDL
    ddlErr,         \* WriteDDL: the error returned
    dpc,            \* WriteDDL: position
    schemaFile      \* WriteDDL: what was written to dw.SchemaFile

mainVars == <<makeItDir, pc, totBytes, bytesPerRow, dw, maxBperJob, nParsers, nBuffRes>>
fsVars == <<dirExists, fexists, fopen, content>>
jmVars == <<jmpc, jmErr, onRow, jobClosed, sent>>
parserVars == <<ppc, pres, taken, published>>
chanVars == <<parsedStream, parsedClosed, cpc>>
writerVars == <<wpc, wres, wk, werr, received>>
exitVars == <<exited, exitCode, exitMsg>>
encVars == <<ddi, input, buffer, lineAt, varAt, insertStatement, dat, emitted, epc, bulkInsertStatement, bulkErr>>
ddlVars == <<dbfmtr, indices, tableSQL, refTablesSQL, idxSQL, ddlErr, dpc, schemaFile>>
vars == <<mainVars, fsVars, jmVars, parserVars, chanVars, writerVars, exitVars, faults, encVars, ddlVars>>

(***************************************************************************)
(* MakeParsingJobsStream                                                   *)
(***************************************************************************)
ParsingJob(startAtRow, rowsToRead) == [StartAtRow |-> startAtRow, RowsToRead |-> rowsToRead]

\* validation without the first check
JobsErrNoTotCheck(W, B, M) ==
    IF M < W THEN "maxBytesPerJob < bytesPerRow"
    ELSE IF W > B THEN "bytesPerRow > totBytes"
    ELSE "nil"

\* the three validation checks, in the order of the code
JobsErr(W, B, M) ==
    IF M > B THEN "maxBytesPerJob > totBytes"
    ELSE IF M < W THEN "maxBytesPerJob < bytesPerRow"
    ELSE IF W > B THEN "bytesPerRow > totBytes"
    ELSE "nil"

\* a loop body that gives the last job a full rowsPerJob
NextJobFullLast(row, totRows, rowsPerJob) ==
    IF rowsPerJob >= (totRows - row)
    THEN [job |-> ParsingJob(row, rowsPerJob), last |-> TRUE, next |-> row]
    ELSE [job |-> ParsingJob(row, rowsPerJob), last |-> FALSE, next |-> row + rowsPerJob]

\* one iteration of the loop: the job sent, whether the loop breaks, the next onRow
NextJob(row, totRows, rowsPerJob) ==
    IF rowsPerJob >= (totRows - row)
    THEN [job |-> ParsingJob(row, totRows - row), last |-> TRUE, next |-> row]
    ELSE [job |-> ParsingJob(row, rowsPerJob), last |-> FALSE, next |-> row + rowsPerJob]

\* a row count that takes a partial last row for a row
TotRowsRoundedUp == (totBytes + bytesPerRow - 1) \div bytesPerRow

TotRows == totBytes \div bytesPerRow
RowsPerJob == maxBperJob \div bytesPerRow

\* lines 20-35: validate, then start the loop
JobMakerValidate ==
    /\ jmpc = "start"
    /\ jmErr' = JobsErr(bytesPerRow, totBytes, maxBperJob)
    /\ jmpc' = IF jmErr' = "nil" THEN "loop" ELSE "returned"
    /\ onRow' = 0
    /\ UNCHANGED <<jobClosed, sent>>

\* lines 36-45: the job maker's half of a send on the unbuffered jobStream
JobMakerSend ==
    /\ jmpc = "loop"
    /\ onRow <= TotRows
    /\ LET nj == NextJob(onRow, TotRows, RowsPerJob) IN
         /\ sent' = Append(sent, nj.job)
         /\ onRow' = nj.next
         /\ jmpc' = IF nj.last THEN "break" ELSE "loop"
    /\ UNCHANGED <<jmErr, jobClosed>>

\* the job about to be sent
JobOnOffer == NextJob(onRow, TotRows, RowsPerJob).job

\* a return that forgets to close jobStream
JobMakerReturnNoClose ==
    /\ \/ jmpc = "break"
       \/ jmpc = "loop" /\ onRow > TotRows
    /\ jmpc' = "returned"
    /\ UNCHANGED <<jmErr, onRow, sent, jobClosed>>

\* lines 34, 46: the loop is left, the deferred close runs, nil is returned
JobMakerReturn ==
    /\ \/ jmpc = "break"
       \/ jmpc = "loop" /\ onRow > TotRows
    /\ jobClosed' = TRUE
    /\ jmpc' = "returned"
    /\ UNCHANGED <<jmErr, onRow, sent>>

(***************************************************************************)
(* Nothing created, nothing spawned.                                       *)
(***************************************************************************)
Idle ==
    /\ dw = [SchemaFile |-> 0, OutFiles |-> <<>>]
    /\ nParsers = 0 /\ nBuffRes = 0
    /\ dirExists = FALSE /\ fexists = {} /\ fopen = {}
    /\ content = <<>>
    /\ jmErr = "nil" /\ onRow = 0
    /\ jobClosed = FALSE /\ sent = <<>>
    /\ ppc = <<>> /\ pres = <<>>
    /\ parsedStream = <<>> /\ parsedClosed = FALSE /\ cpc = "unspawned"
    /\ wpc = <<>> /\ wres = <<>> /\ wk = <<>> /\ werr = <<>>
    /\ taken = EmptyBag /\ published = EmptyBag /\ received = EmptyBag
    /\ exited = FALSE /\ exitCode = 0 /\ exitMsg = <<>>
    /\ faults = 0

\* no call of BulkInsert is looked at
EncIdle ==
    /\ ddi = <<>> /\ input = <<>> /\ buffer = <<>>
    /\ lineAt = 0 /\ varAt = 0
    /\ insertStatement = <<>> /\ dat = <<>> /\ emitted = <<>>
    /\ epc = "none" /\ bulkInsertStatement = <<>> /\ bulkErr = "nil"

\* no call of WriteDDL is looked at
DdlIdle ==
    /\ dbfmtr = <<>> /\ indices = <<>>
    /\ tableSQL = <<>> /\ refTablesSQL = <<>> /\ idxSQL = <<>>
    /\ ddlErr = "nil" /\ dpc = "none" /\ schemaFile = <<>>

(***************************************************************************)
(* SpecJobs: MakeParsingJobsStream called on its own, with a receiver that *)
(* is always ready to take the next job from jobStream.                    *)
(***************************************************************************)
InitJobs ==
    /\ makeItDir = FALSE
    /\ pc = "none"
    /\ bytesPerRow \in 1..MaxRowBytes
    /\ totBytes \in 0..MaxCallBytes
    /\ maxBperJob \in 0..MaxCallBytes
    /\ jmpc = "start"
    /\ Idle
    /\ EncIdle
    /\ DdlIdle

JobsValidate ==
    /\ pc = "none"
    /\ JobMakerValidate
    /\ UNCHANGED <<mainVars, fsVars, parserVars, chanVars, writerVars, exitVars, faults>>
    /\ UNCHANGED <<encVars, ddlVars>>

JobsSend ==
    /\ pc = "none"
    /\ JobMakerSend
    /\ UNCHANGED <<mainVars, fsVars, parserVars, chanVars, writerVars, exitVars, faults>>
    /\ UNCHANGED <<encVars, ddlVars>>

JobsReturn ==
    /\ pc = "none"
    /\ JobMakerReturn
    /\ UNCHANGED <<mainVars, fsVars, parserVars, chanVars, writerVars, exitVars, faults>>
    /\ UNCHANGED <<encVars, ddlVars>>

NextJobs == JobsValidate \/ JobsSend \/ JobsReturn

SpecJobs == InitJobs /\ [][NextJobs]_vars

(***************************************************************************)
(* Setup in main, up to WriteDDL                                           *)
(***************************************************************************)
\* checkErr with a non-nil error: the message is printed and os.Exit(1) is called
Exit(code, topic, err) ==
    /\ exited' = TRUE
    /\ exitCode' = code
    /\ exitMsg' = <<topic, err>>

Running == pc /= "none" /\ ~exited

\* outcomes of an I/O call of a goroutine: TRUE, or FALSE while faults are left
Outcomes == IF faults < MaxFaults THEN BOOLEAN ELSE {TRUE}

\* strings.ToLower on the names the model uses
ToLower(s) ==
    CASE s = "AGE" -> "age"
      [] s = "SEX" -> "sex"
      [] s = "Sex" -> "sex"
      [] s = "MySQL" -> "mysql"
      [] OTHER -> s

Range(s) == {s[i] : i \in DOMAIN s}

\* -b and -t values tried
DbTypes == {"postgres", "MySQL", "sqlite"}
TableNames == {"ipums_tab", ""}

\* -i values tried
IndexRequests == {<<>>, <<"age">>, <<"Sex", "age">>, <<"zzz">>, <<"age", "zzz">>}

\* names of the variables of the data dictionary, as the DDI gives them
DdiVarNames == <<"AGE", "SEX">>

\* a NewDBFormatter that does not look at the table name
NewDBFormatterErrAnyTable(dbType, tableName) ==
    IF ToLower(dbType) \notin {"postgres", "mssql", "mysql", "oracle"}
    THEN "could not get data types"
    ELSE "nil"

NewDBFormatterErr(dbType, tableName) ==
    IF tableName = "" THEN "tableName can not be empty"
    ELSE IF ToLower(dbType) \notin {"postgres", "mssql", "mysql", "oracle"}
         THEN "could not get data types"
         ELSE "nil"

VariableNames == [i \in DOMAIN DdiVarNames |-> ToLower(DdiVarNames[i])]

RECURSIVE CreateIndicesFrom(_, _, _)
CreateIndicesFrom(cols, i, statements) ==
    IF i > Len(cols) THEN [out |-> statements, err |-> FALSE]
    ELSE IF ToLower(cols[i]) \notin Range(VariableNames)
         THEN [out |-> <<>>, err |-> TRUE]
         ELSE CreateIndicesFrom(cols, i + 1, Append(statements, <<"CREATE INDEX", cols[i]>>))

\* a CreateIndices that returns, with the error, the statements of the
\* names it knows
CreateIndicesKeepValid(cols) ==
    LET known(c) == ToLower(c) \in Range(VariableNames) IN
      [out |-> CreateIndicesFrom(SelectSeq(cols, known), 1, <<>>).out,
       err |-> CreateIndicesFrom(cols, 1, <<>>).err]

CreateIndices(cols) == CreateIndicesFrom(cols, 1, <<>>)

\* a count that forgets the file for the remainder
numOutFilesNoRemainder(B) == B \div maxBytesPerFile

numOutFiles(B) ==
    (B \div maxBytesPerFile) + (IF B % maxBytesPerFile > 0 THEN 1 ELSE 0)

Min(a, b) == IF a < b THEN a ELSE b

\* a JobConfig whose channel size is the divisor of MaxBytesPerJob
NewJobConfigBigBuffer(B, nWriters, nCPU) ==
    LET nCPUsSaveParseWrite == nCPU - nWriters - 1
        nP == IF nCPU > 1
              THEN IF nCPUsSaveParseWrite > 0
                   THEN Min(nCPUsSaveParseWrite, MAXPARSERS)
                   ELSE MINPARSERS
              ELSE 1
    IN [ParsedResChanSize |-> nP + nWriters,
        NumParsers |-> nP,
        MaxBytesPerJob |-> maxBytesofDatFileInMemory \div (nP + nWriters)]

NewJobConfig(B, nWriters, nCPU) ==
    LET nCPUsSaveParseWrite == nCPU - nWriters - 1
        nP == IF nCPU > 1
              THEN IF nCPUsSaveParseWrite > 0
                   THEN Min(nCPUsSaveParseWrite, MAXPARSERS)
                   ELSE MINPARSERS
              ELSE 1
    IN [ParsedResChanSize |-> nP,
        NumParsers |-> nP,
        MaxBytesPerJob |-> maxBytesofDatFileInMemory \div (nP + nWriters)]

\* main.go 50-51
MainTotalBytes ==
    /\ Running /\ pc = "TotalBytes"
    /\ \/ /\ \E B \in 0..MaxTotBytes : totBytes' = B
          /\ pc' = "NewDBFormatter"
          /\ UNCHANGED exitVars
       \/ /\ Exit(1, "totBytes", "open")
          /\ UNCHANGED <<pc, totBytes>>
    /\ UNCHANGED <<makeItDir, bytesPerRow, dw, maxBperJob, nParsers, nBuffRes>>
    /\ UNCHANGED <<fsVars, jmVars, parserVars, chanVars, writerVars>>
    /\ UNCHANGED faults
    /\ UNCHANGED <<encVars, ddlVars>>

\* main.go 54-55
MainNewDBFormatter ==
    /\ Running /\ pc = "NewDBFormatter"
    /\ \E dbType \in DbTypes, tableName \in TableNames :
         LET err == NewDBFormatterErr(dbType, tableName) IN
           IF err = "nil"
           THEN /\ pc' = "NewDataDict"
                /\ dbfmtr' = [DbType |-> dbType, TableName |-> tableName]
                /\ UNCHANGED exitVars
           ELSE Exit(1, "DBFormatter", err) /\ UNCHANGED <<pc, dbfmtr>>
    /\ UNCHANGED <<makeItDir, totBytes, bytesPerRow, dw, maxBperJob, nParsers, nBuffRes>>
    /\ UNCHANGED <<fsVars, jmVars, parserVars, chanVars, writerVars>>
    /\ UNCHANGED faults
    /\ UNCHANGED <<encVars, indices, tableSQL, refTablesSQL, idxSQL, ddlErr, dpc, schemaFile>>

\* main.go 58-59 and 74: the dictionary is loaded; it fixes the row width
MainNewDataDict ==
    /\ Running /\ pc = "NewDataDict"
    /\ \/ /\ \E W \in 1..MaxRowBytes : bytesPerRow' = W
          /\ pc' = "NewDumpWriter"
          /\ UNCHANGED exitVars
       \/ /\ Exit(1, "DataDict", "open or decode")
          /\ UNCHANGED <<pc, bytesPerRow>>
    /\ UNCHANGED <<makeItDir, totBytes, dw, maxBperJob, nParsers, nBuffRes>>
    /\ UNCHANGED <<fsVars, jmVars, parserVars, chanVars, writerVars>>
    /\ UNCHANGED faults
    /\ UNCHANGED <<encVars, ddlVars>>

\* a NewDumpWriter that makes a directory when it counts more than one file
MainNewDumpWriterByCount ==
    /\ Running /\ pc = "NewDumpWriter"
    /\ LET nOutFiles == numOutFiles(totBytes)
           asDir == nOutFiles > 1 IN
         \/ /\ dirExists' = asDir
            /\ fexists' = IF asDir THEN 0..nOutFiles ELSE {0}
            /\ fopen' = fexists'
            /\ content' = [f \in fexists' |-> <<>>]
            /\ dw' = [SchemaFile |-> 0,
                      OutFiles |-> IF asDir THEN [i \in 1..nOutFiles |-> i] ELSE <<0>>]
            /\ pc' = "NewJobConfig"
            /\ UNCHANGED exitVars
         \/ /\ asDir
            /\ Exit(1, "DumpWriter", "mkdir")
            /\ UNCHANGED <<fsVars, dw, pc>>
         \/ /\ dirExists' = FALSE
            /\ Exit(1, "DumpWriter", "create schema file")
            /\ UNCHANGED <<fexists, fopen, content, dw, pc>>
    /\ UNCHANGED <<makeItDir, totBytes, bytesPerRow, maxBperJob, nParsers, nBuffRes>>
    /\ UNCHANGED <<jmVars, parserVars, chanVars, writerVars>>
    /\ UNCHANGED faults
    /\ UNCHANGED <<encVars, ddlVars>>

\* main.go 62-63 with NewDumpWriter: file 0 is the schema file, file i >= 1 is
\* inserts_(i-1).sql; without -d the only OutFile is the schema file itself
MainNewDumpWriter ==
    /\ Running /\ pc = "NewDumpWriter"
    /\ LET nOutFiles == IF makeItDir THEN numOutFiles(totBytes) ELSE 1 IN
         \/ \* every os.Mkdir and os.Create succeeds
            /\ dirExists' = makeItDir
            /\ fexists' = IF makeItDir THEN 0..nOutFiles ELSE {0}
            /\ fopen' = fexists'
            /\ content' = [f \in fexists' |-> <<>>]
            /\ dw' = [SchemaFile |-> 0,
                      OutFiles |-> IF makeItDir THEN [i \in 1..nOutFiles |-> i] ELSE <<0>>]
            /\ pc' = "NewJobConfig"
            /\ UNCHANGED exitVars
         \/ \* os.Mkdir fails
            /\ makeItDir
            /\ Exit(1, "DumpWriter", "mkdir")
            /\ UNCHANGED <<fsVars, dw, pc>>
         \/ \* os.Create of the schema file fails: the directory is removed
            /\ dirExists' = FALSE
            /\ Exit(1, "DumpWriter", "create schema file")
            /\ UNCHANGED <<fexists, fopen, content, dw, pc>>
         \/ \* os.Create of inserts_(i-1).sql fails: the earlier insertion files are
            \* closed and removed; os.Remove of the directory fails, it is not empty
            /\ makeItDir
            /\ \E i \in 1..nOutFiles :
                 /\ dirExists' = TRUE
                 /\ fexists' = {0}
                 /\ fopen' = {0}
                 /\ content' = [f \in {0} |-> <<>>]
            /\ Exit(1, "DumpWriter", "create insertion file")
            /\ UNCHANGED <<dw, pc>>
    /\ UNCHANGED <<makeItDir, totBytes, bytesPerRow, maxBperJob, nParsers, nBuffRes>>
    /\ UNCHANGED <<jmVars, parserVars, chanVars, writerVars>>
    /\ UNCHANGED faults
    /\ UNCHANGED <<encVars, ddlVars>>

\* main.go 69-71
MainNewJobConfig ==
    /\ Running /\ pc = "NewJobConfig"
    /\ \E nCPU \in 1..MaxCPU :
         LET jCFG == NewJobConfig(totBytes, Len(dw.OutFiles), nCPU) IN
           /\ maxBperJob' = jCFG.MaxBytesPerJob
           /\ nParsers' = jCFG.NumParsers
           /\ nBuffRes' = jCFG.ParsedResChanSize
    /\ pc' = "WriteDDL"
    /\ UNCHANGED <<makeItDir, totBytes, bytesPerRow, dw>>
    /\ UNCHANGED <<fsVars, jmVars, parserVars, chanVars, writerVars, exitVars>>
    /\ UNCHANGED faults
    /\ UNCHANGED <<encVars, ddlVars>>

\* the INSERT statement BulkInsert makes of the rows of a job
BulkInsert(job) == <<"INSERT", job.StartAtRow, job.RowsToRead>>
\* the bytes WriteDDL writes
DDL == <<"DDL">>

\* the deferred dw.SchemaFile.Close() of WriteDDL
SchemaClosedByDDL ==
    IF Len(dw.OutFiles) > 1 \/ Len(dw.OutFiles) = 0
    THEN fopen \ {dw.SchemaFile}
    ELSE fopen

\* a main that calls WriteDDL and goes on without checkErr
MainWriteDDLUnchecked ==
    /\ Running /\ pc = "WriteDDL"
    /\ fopen' = SchemaClosedByDDL
    /\ \E cols \in IndexRequests, writeOK \in BOOLEAN :
         LET indicesSQL == CreateIndices(cols) IN
           IF indicesSQL.err \/ ~writeOK
           THEN UNCHANGED content
           ELSE content' = [content EXCEPT ![dw.SchemaFile] = Append(@, DDL)]
    /\ pc' = "spawnJobMaker"
    /\ UNCHANGED exitVars
    /\ UNCHANGED <<dirExists, fexists>>
    /\ UNCHANGED <<makeItDir, totBytes, bytesPerRow, dw, maxBperJob, nParsers, nBuffRes>>
    /\ UNCHANGED <<jmVars, parserVars, chanVars, writerVars>>
    /\ UNCHANGED faults
    /\ UNCHANGED <<encVars, ddlVars>>

\* main.go 86-87 with WriteDDL
MainWriteDDL ==
    /\ Running /\ pc = "WriteDDL"
    /\ fopen' = SchemaClosedByDDL
    /\ \E cols \in IndexRequests, writeOK \in BOOLEAN :
         LET indicesSQL == CreateIndices(cols) IN
           IF indicesSQL.err
           THEN /\ Exit(1, "write DDL", "index creation")
                /\ UNCHANGED <<content, pc>>
           ELSE IF ~writeOK
           THEN /\ Exit(1, "write DDL", "DDL write")
                /\ UNCHANGED <<content, pc>>
           ELSE /\ content' = [content EXCEPT
                                 ![dw.SchemaFile] = Append(@, DDL)]
                /\ pc' = "spawnJobMaker"
                /\ UNCHANGED exitVars
    /\ UNCHANGED <<dirExists, fexists>>
    /\ UNCHANGED <<makeItDir, totBytes, bytesPerRow, dw, maxBperJob, nParsers, nBuffRes>>
    /\ UNCHANGED <<jmVars, parserVars, chanVars, writerVars>>
    /\ UNCHANGED faults
    /\ UNCHANGED <<encVars, ddlVars>>

(***************************************************************************)
(* Goroutines                                                              *)
(***************************************************************************)
\* Block: nil
NilBlock == <<>>
NoResult == [Block |-> NilBlock, AnyError |-> FALSE]
ParsedResult(block, anyError) == [Block |-> block, AnyError |-> anyError]
BagAdd(bag, x) == bag (+) SetToBag({x})

ParserReturned(p) == ppc[p] \in {"returned", "openErr"}

\* main.go 99-104
MainSpawnJobMaker ==
    /\ Running /\ pc = "spawnJobMaker"
    /\ jmpc' = "start"
    /\ pc' = "ParseBlocks"
    /\ UNCHANGED <<makeItDir, totBytes, bytesPerRow, dw, maxBperJob, nParsers, nBuffRes>>
    /\ UNCHANGED <<jmErr, onRow, jobClosed, sent>>
    /\ UNCHANGED <<fsVars, parserVars, chanVars, writerVars, exitVars>>
    /\ UNCHANGED faults
    /\ UNCHANGED <<encVars, ddlVars>>

\* main.go 107 with ParseBlocks: wg.Add(nParsers) and nParsers goroutines
MainParseBlocks ==
    /\ Running /\ pc = "ParseBlocks"
    /\ ppc' = [p \in 1..nParsers |-> "open"]
    /\ pres' = [p \in 1..nParsers |-> NoResult]
    /\ pc' = "spawnCloser"
    /\ UNCHANGED <<makeItDir, totBytes, bytesPerRow, dw, maxBperJob, nParsers, nBuffRes>>
    /\ UNCHANGED <<taken, published>>
    /\ UNCHANGED <<fsVars, jmVars, chanVars, writerVars, exitVars>>
    /\ UNCHANGED faults
    /\ UNCHANGED <<encVars, ddlVars>>

\* main.go 109-112
MainSpawnCloser ==
    /\ Running /\ pc = "spawnCloser"
    /\ cpc' = "wait"
    /\ pc' = "WriteParsedResults"
    /\ UNCHANGED <<makeItDir, totBytes, bytesPerRow, dw, maxBperJob, nParsers, nBuffRes>>
    /\ UNCHANGED <<parsedStream, parsedClosed>>
    /\ UNCHANGED <<fsVars, jmVars, parserVars, writerVars, exitVars>>
    /\ UNCHANGED faults
    /\ UNCHANGED <<encVars, ddlVars>>

\* main.go 116 with WriteParsedResults: one writer per OutFile
MainWriteParsedResults ==
    /\ Running /\ pc = "WriteParsedResults"
    /\ wpc' = [w \in DOMAIN dw.OutFiles |-> "recv"]
    /\ wres' = [w \in DOMAIN dw.OutFiles |-> NoResult]
    /\ wk' = [w \in DOMAIN dw.OutFiles |-> 0]
    /\ werr' = [w \in DOMAIN dw.OutFiles |-> "nil"]
    /\ pc' = "waitJobMaker"
    /\ UNCHANGED <<makeItDir, totBytes, bytesPerRow, dw, maxBperJob, nParsers, nBuffRes>>
    /\ UNCHANGED received
    /\ UNCHANGED <<fsVars, jmVars, parserVars, chanVars, exitVars>>
    /\ UNCHANGED faults
    /\ UNCHANGED <<encVars, ddlVars>>

\* main.go 119
MainWaitJobMaker ==
    /\ Running /\ pc = "waitJobMaker"
    /\ jmpc = "done"
    /\ pc' = "waitParsers"
    /\ UNCHANGED <<makeItDir, totBytes, bytesPerRow, dw, maxBperJob, nParsers, nBuffRes>>
    /\ UNCHANGED <<fsVars, jmVars, parserVars, chanVars, writerVars, exitVars>>
    /\ UNCHANGED faults
    /\ UNCHANGED <<encVars, ddlVars>>

\* main.go 120
MainWaitParsers ==
    /\ Running /\ pc = "waitParsers"
    /\ \A p \in DOMAIN ppc : ParserReturned(p)
    /\ pc' = "waitWriters"
    /\ UNCHANGED <<makeItDir, totBytes, bytesPerRow, dw, maxBperJob, nParsers, nBuffRes>>
    /\ UNCHANGED <<fsVars, jmVars, parserVars, chanVars, writerVars, exitVars>>
    /\ UNCHANGED faults
    /\ UNCHANGED <<encVars, ddlVars>>

\* main.go 121
MainWaitWriters ==
    /\ Running /\ pc = "waitWriters"
    /\ \A w \in DOMAIN wpc : wpc[w] = "returned"
    /\ pc' = "PrintFinalSummary"
    /\ UNCHANGED <<makeItDir, totBytes, bytesPerRow, dw, maxBperJob, nParsers, nBuffRes>>
    /\ UNCHANGED <<fsVars, jmVars, parserVars, chanVars, writerVars, exitVars>>
    /\ UNCHANGED faults
    /\ UNCHANGED <<encVars, ddlVars>>

\* main.go 124-126: the success report, then main returns
MainPrintFinalSummary ==
    /\ Running /\ pc = "PrintFinalSummary"
    /\ pc' = "returned"
    /\ Exit(0, "PrintFinalSummary", "nil")
    /\ UNCHANGED <<makeItDir, totBytes, bytesPerRow, dw, maxBperJob, nParsers, nBuffRes>>
    /\ UNCHANGED <<fsVars, jmVars, parserVars, chanVars, writerVars>>
    /\ UNCHANGED faults
    /\ UNCHANGED <<encVars, ddlVars>>

(* ---- job maker goroutine, main.go 100-104 ---- *)
JobMakerStart ==
    /\ Running
    /\ JobMakerValidate
    /\ UNCHANGED <<mainVars, fsVars, parserVars, chanVars, writerVars, exitVars, faults>>
    /\ UNCHANGED <<encVars, ddlVars>>

JobMakerClose ==
    /\ Running
    /\ JobMakerReturn
    /\ UNCHANGED <<mainVars, fsVars, parserVars, chanVars, writerVars, exitVars, faults>>
    /\ UNCHANGED <<encVars, ddlVars>>

\* checkErr(err, "parsing"), then the deferred jobMakerWG.Done()
JobMakerCheckErr ==
    /\ Running
    /\ jmpc = "returned"
    /\ IF jmErr /= "nil"
       THEN Exit(1, "parsing", jmErr) /\ UNCHANGED jmpc
       ELSE jmpc' = "done" /\ UNCHANGED exitVars
    /\ UNCHANGED <<jmErr, onRow, jobClosed, sent>>
    /\ UNCHANGED <<mainVars, fsVars, parserVars, chanVars, writerVars>>
    /\ UNCHANGED faults
    /\ UNCHANGED <<encVars, ddlVars>>

(* ---- parser goroutines, ParseBlocks ---- *)
\* os.Open(dp.datFileName)
ParserOpen(p) ==
    /\ Running
    /\ ppc[p] = "open"
    /\ \E ok \in Outcomes :
         \* on an error the goroutine returns: wg.Done() and nothing else
         /\ ppc' = [ppc EXCEPT ![p] = IF ok THEN "recv" ELSE "openErr"]
         /\ faults' = IF ok THEN faults ELSE faults + 1
    /\ UNCHANGED <<pres, taken, published>>
    /\ UNCHANGED <<mainVars, fsVars, jmVars, chanVars, writerVars, exitVars>>
    /\ UNCHANGED <<encVars, ddlVars>>

\* job := <-jobStream, together with the job maker's send; then BulkInsert
ParserTakeJob(p) ==
    /\ Running
    /\ ppc[p] = "recv"
    /\ JobMakerSend
    /\ \E ok \in Outcomes :
         /\ pres' = [pres EXCEPT ![p] =
                      IF ok THEN ParsedResult(BulkInsert(JobOnOffer), FALSE)
                      ELSE ParsedResult(NilBlock, TRUE)]
         /\ faults' = IF ok THEN faults ELSE faults + 1
    /\ taken' = BagAdd(taken, JobOnOffer)
    /\ ppc' = [ppc EXCEPT ![p] = "send"]
    /\ UNCHANGED published
    /\ UNCHANGED <<mainVars, fsVars, chanVars, writerVars, exitVars>>
    /\ UNCHANGED <<encVars, ddlVars>>

\* parsedStream <- ParsedResult{...}; a send on a closed channel panics
ParserSend(p) ==
    /\ Running
    /\ ppc[p] = "send"
    /\ IF parsedClosed
       THEN /\ Exit(2, "panic", "send on closed channel")
            /\ UNCHANGED <<parsedStream, published, pres, ppc>>
       ELSE /\ Len(parsedStream) < nBuffRes
            /\ parsedStream' = Append(parsedStream, pres[p])
            /\ published' = BagAdd(published, pres[p].Block)
            /\ pres' = [pres EXCEPT ![p] = NoResult]
            /\ ppc' = [ppc EXCEPT ![p] = "recv"]
            /\ UNCHANGED exitVars
    /\ UNCHANGED <<taken, parsedClosed, cpc>>
    /\ UNCHANGED <<mainVars, fsVars, jmVars, writerVars>>
    /\ UNCHANGED faults
    /\ UNCHANGED <<encVars, ddlVars>>

\* the range over jobStream ends: datFile.Close(), wg.Done()
ParserReturn(p) ==
    /\ Running
    /\ ppc[p] = "recv"
    /\ jobClosed
    /\ ppc' = [ppc EXCEPT ![p] = "returned"]
    /\ UNCHANGED <<pres, taken, published>>
    /\ UNCHANGED <<mainVars, fsVars, jmVars, chanVars, writerVars, exitVars>>
    /\ UNCHANGED faults
    /\ UNCHANGED <<encVars, ddlVars>>

(* ---- main.go 109-112: parserWG.Wait(); close(parsedBlockStream) ---- *)
\* a closing goroutine that does not wait for the parsers
ParsedStreamCloseNoWait ==
    /\ Running
    /\ cpc = "wait"
    /\ IF parsedClosed
       THEN Exit(2, "panic", "close of closed channel") /\ UNCHANGED parsedClosed
       ELSE parsedClosed' = TRUE /\ UNCHANGED exitVars
    /\ cpc' = "done"
    /\ UNCHANGED parsedStream
    /\ UNCHANGED <<mainVars, fsVars, jmVars, parserVars, writerVars>>
    /\ UNCHANGED faults
    /\ UNCHANGED <<encVars, ddlVars>>

\* the closing goroutine; a close of a closed channel panics
ParsedStreamClose ==
    /\ Running
    /\ cpc = "wait"
    /\ \A p \in DOMAIN ppc : ParserReturned(p)
    /\ IF parsedClosed
       THEN Exit(2, "panic", "close of closed channel") /\ UNCHANGED parsedClosed
       ELSE parsedClosed' = TRUE /\ UNCHANGED exitVars
    /\ cpc' = "done"
    /\ UNCHANGED parsedStream
    /\ UNCHANGED <<mainVars, fsVars, jmVars, parserVars, writerVars>>
    /\ UNCHANGED faults
    /\ UNCHANGED <<encVars, ddlVars>>

(* ---- writer goroutines, WriteParsedResults and writeToDump ---- *)
\* goroutines that all see the last value of the loop variable f
OutFileOfLast(w) == dw.OutFiles[Len(dw.OutFiles)]

\* the file handed to the w-th goroutine: go func(f *os.File) {...}(f)
OutFileOf(w) == dw.OutFiles[w]

\* a writer that logs a block with AnyError and goes on to the next one
AfterRecvSkipErrors(res) == IF res.AnyError THEN "recv" ELSE "write"

\* where the writer goes with the block it received
AfterRecv(res) == IF res.AnyError THEN "FileCleanup" ELSE "write"

\* res := <-parsedStream
WriterRecv(w) ==
    /\ Running
    /\ wpc[w] = "recv"
    /\ parsedStream /= <<>>
    /\ LET res == Head(parsedStream) IN
         /\ parsedStream' = Tail(parsedStream)
         /\ received' = BagAdd(received, res.Block)
         /\ wpc' = [wpc EXCEPT ![w] = AfterRecv(res)]
         /\ wres' = [wres EXCEPT ![w] = IF res.AnyError THEN NoResult ELSE res]
         /\ werr' = [werr EXCEPT ![w] =
                       IF wpc'[w] = "FileCleanup" THEN "encountered error parsing" ELSE @]
    /\ UNCHANGED <<wk, parsedClosed, cpc>>
    /\ UNCHANGED <<mainVars, fsVars, jmVars, parserVars, exitVars>>
    /\ UNCHANGED faults
    /\ UNCHANGED <<encVars, ddlVars>>

\* a write that puts only the first row of the block into the file
WriterWriteFirstRow(w) ==
    /\ Running
    /\ wpc[w] = "write"
    /\ LET f == OutFileOf(w) IN
       \E ioOK \in Outcomes :
         /\ faults' = IF ioOK THEN faults ELSE faults + 1
         /\ IF ioOK /\ f \in fopen
            THEN /\ content' = [content EXCEPT ![f] = Append(@, <<wres[w].Block[1], wres[w].Block[2], 1>>)]
                 /\ wpc' = [wpc EXCEPT ![w] = "recv"]
                 /\ UNCHANGED <<fopen, fexists, werr>>
            ELSE /\ fopen' = fopen \ {f}
                 /\ fexists' = fexists \ {f}
                 /\ wpc' = [wpc EXCEPT ![w] = "FileCleanup"]
                 /\ werr' = [werr EXCEPT ![w] = "encountered error writing"]
                 /\ UNCHANGED content
    /\ wres' = [wres EXCEPT ![w] = NoResult]
    /\ UNCHANGED <<wk, received, dirExists>>
    /\ UNCHANGED <<mainVars, jmVars, parserVars, chanVars, exitVars>>
    /\ UNCHANGED <<encVars, ddlVars>>

\* outFile.Write(res.Block); on failure outFile.Close(), os.Remove(outFile.Name())
WriterWrite(w) ==
    /\ Running
    /\ wpc[w] = "write"
    /\ LET f == OutFileOf(w) IN
       \E ioOK \in Outcomes :
         /\ faults' = IF ioOK THEN faults ELSE faults + 1
         /\ IF ioOK /\ f \in fopen
            THEN /\ content' = [content EXCEPT ![f] = Append(@, wres[w].Block)]
                 /\ wpc' = [wpc EXCEPT ![w] = "recv"]
                 /\ UNCHANGED <<fopen, fexists, werr>>
            ELSE /\ fopen' = fopen \ {f}
                 /\ fexists' = fexists \ {f}
                 /\ wpc' = [wpc EXCEPT ![w] = "FileCleanup"]
                 /\ werr' = [werr EXCEPT ![w] = "encountered error writing"]
                 /\ UNCHANGED content
    /\ wres' = [wres EXCEPT ![w] = NoResult]
    /\ UNCHANGED <<wk, received, dirExists>>
    /\ UNCHANGED <<mainVars, jmVars, parserVars, chanVars, exitVars>>
    /\ UNCHANGED <<encVars, ddlVars>>

\* a range loop that also ends when the channel is merely empty
StreamEmpty == parsedStream = <<>>

\* the range over parsedStream ends: the channel is closed and nothing is left in it
StreamDrained == parsedStream = <<>> /\ parsedClosed

\* parsedStream is closed and drained: outFile.Close(), return nil, wg.Done()
WriterReturn(w) ==
    /\ Running
    /\ wpc[w] = "recv"
    /\ StreamDrained
    /\ fopen' = fopen \ {OutFileOf(w)}
    /\ wpc' = [wpc EXCEPT ![w] = "returned"]
    /\ UNCHANGED <<wres, wk, werr, received>>
    /\ UNCHANGED <<dirExists, fexists, content>>
    /\ UNCHANGED <<mainVars, jmVars, parserVars, chanVars, exitVars>>
    /\ UNCHANGED faults
    /\ UNCHANGED <<encVars, ddlVars>>

\* a FileCleanup whose loop stops one OutFile short
CleanupStepsOneShort == Len(dw.OutFiles) - 1

\* the number of OutFiles FileCleanup closes and removes after the schema file
CleanupSteps == Len(dw.OutFiles)

\* dw.FileCleanup(), one file per step: step 0 is the schema file, step k the
\* k-th OutFile
WriterFileCleanup(w) ==
    /\ Running
    /\ wpc[w] = "FileCleanup"
    /\ IF wk[w] = 0
       THEN /\ fopen' = IF Len(dw.OutFiles) = 1 THEN fopen \ {dw.SchemaFile} ELSE fopen
            /\ fexists' = fexists \ {dw.SchemaFile}
       ELSE /\ fopen' = fopen \ {dw.OutFiles[wk[w]]}
            /\ fexists' = fexists \ {dw.OutFiles[wk[w]]}
    /\ IF wk[w] >= CleanupSteps
       THEN wpc' = [wpc EXCEPT ![w] = "exitFunc"] /\ UNCHANGED wk
       ELSE wk' = [wk EXCEPT ![w] = @ + 1] /\ UNCHANGED wpc
    /\ UNCHANGED <<wres, werr, received>>
    /\ UNCHANGED <<dirExists, content>>
    /\ UNCHANGED <<mainVars, jmVars, parserVars, chanVars, exitVars>>
    /\ UNCHANGED faults
    /\ UNCHANGED <<encVars, ddlVars>>

\* exitFunc(err, "DumpWriter"), that is checkErr
WriterExit(w) ==
    /\ Running
    /\ wpc[w] = "exitFunc"
    /\ Exit(1, "DumpWriter", werr[w])
    /\ UNCHANGED <<mainVars, fsVars, jmVars, parserVars, chanVars, writerVars, faults>>
    /\ UNCHANGED <<encVars, ddlVars>>

Init ==
    /\ makeItDir \in BOOLEAN
    /\ pc = "TotalBytes"
    /\ totBytes = 0 /\ bytesPerRow = 0 /\ maxBperJob = 0
    /\ jmpc = "unspawned"
    /\ Idle
    /\ EncIdle
    /\ DdlIdle

Next ==
    \/ MainTotalBytes
    \/ MainNewDBFormatter
    \/ MainNewDataDict
    \/ MainNewDumpWriter
    \/ MainNewJobConfig
    \/ MainWriteDDL
    \/ MainSpawnJobMaker
    \/ MainParseBlocks
    \/ MainSpawnCloser
    \/ MainWriteParsedResults
    \/ MainWaitJobMaker
    \/ MainWaitParsers
    \/ MainWaitWriters
    \/ MainPrintFinalSummary
    \/ JobMakerStart
    \/ JobMakerClose
    \/ JobMakerCheckErr
    \/ \E p \in DOMAIN ppc : ParserOpen(p)
    \/ \E p \in DOMAIN ppc : ParserTakeJob(p)
    \/ \E p \in DOMAIN ppc : ParserSend(p)
    \/ \E p \in DOMAIN ppc : ParserReturn(p)
    \/ ParsedStreamClose
    \/ \E w \in DOMAIN wpc : WriterRecv(w)
    \/ \E w \in DOMAIN wpc : WriterWrite(w)
    \/ \E w \in DOMAIN wpc : WriterReturn(w)
    \/ \E w \in DOMAIN wpc : WriterFileCleanup(w)
    \/ \E w \in DOMAIN wpc : WriterExit(w)

Spec == Init /\ [][Next]_vars

\* the Go scheduler keeps running some goroutine that can run
FairSpec == Spec /\ WF_vars(Next)

(***************************************************************************)
(* SpecRows: the row-processing phase of a run without -d on its own,      *)
(* started in the state main is in when WriteDDL has returned nil, for     *)
(* input files of up to MaxRunBytes.                                       *)
(***************************************************************************)
InitRows ==
    /\ makeItDir = FALSE
    /\ pc = "spawnJobMaker"
    /\ totBytes \in 0..MaxRunBytes
    /\ bytesPerRow \in 1..MaxRowBytes
    /\ LET nOutFiles == IF makeItDir THEN numOutFiles(totBytes) ELSE 1 IN
         /\ dw = [SchemaFile |-> 0,
                  OutFiles |-> IF makeItDir THEN [i \in 1..nOutFiles |-> i] ELSE <<0>>]
         /\ dirExists = makeItDir
         /\ fexists = (IF makeItDir THEN 0..nOutFiles ELSE {0})
         /\ fopen = (IF makeItDir /\ nOutFiles /= 1 THEN 1..nOutFiles ELSE fexists)
         /\ content = [f \in fexists |-> IF f = 0 THEN <<DDL>> ELSE <<>>]
         /\ \E nCPU \in 1..MaxCPU :
              LET jCFG == NewJobConfig(totBytes, Len(dw.OutFiles), nCPU) IN
                /\ maxBperJob = jCFG.MaxBytesPerJob
                /\ nParsers = jCFG.NumParsers
                /\ nBuffRes = jCFG.ParsedResChanSize
    /\ jmpc = "unspawned" /\ jmErr = "nil" /\ onRow = 0
    /\ jobClosed = FALSE /\ sent = <<>>
    /\ ppc = <<>> /\ pres = <<>>
    /\ parsedStream = <<>> /\ parsedClosed = FALSE /\ cpc = "unspawned"
    /\ wpc = <<>> /\ wres = <<>> /\ wk = <<>> /\ werr = <<>>
    /\ taken = EmptyBag /\ published = EmptyBag /\ received = EmptyBag
    /\ exited = FALSE /\ exitCode = 0 /\ exitMsg = <<>>
    /\ faults = 0
    /\ EncIdle
    /\ DdlIdle

NextRows ==
    \/ MainSpawnJobMaker
    \/ MainParseBlocks
    \/ MainSpawnCloser
    \/ MainWriteParsedResults
    \/ MainWaitJobMaker
    \/ MainWaitParsers
    \/ MainWaitWriters
    \/ MainPrintFinalSummary
    \/ JobMakerStart
    \/ JobMakerClose
    \/ JobMakerCheckErr
    \/ \E p \in DOMAIN ppc : ParserOpen(p)
    \/ \E p \in DOMAIN ppc : ParserTakeJob(p)
    \/ \E p \in DOMAIN ppc : ParserSend(p)
    \/ \E p \in DOMAIN ppc : ParserReturn(p)
    \/ ParsedStreamClose
    \/ \E w \in DOMAIN wpc : WriterRecv(w)
    \/ \E w \in DOMAIN wpc : WriterWrite(w)
    \/ \E w \in DOMAIN wpc : WriterReturn(w)
    \/ \E w \in DOMAIN wpc : WriterFileCleanup(w)
    \/ \E w \in DOMAIN wpc : WriterExit(w)

SpecRows == InitRows /\ [][NextRows]_vars

(***************************************************************************)
(* SpecSetup: NewDumpWriter, NewJobConfig and WriteDDL on their own,       *)
(* started in the state main is in when the dictionary has been loaded,    *)
(* for input files of up to MaxSetupBytes.                                 *)
(***************************************************************************)
InitSetup ==
    /\ makeItDir \in BOOLEAN
    /\ pc = "NewDumpWriter"
    /\ totBytes \in 0..MaxSetupBytes
    /\ bytesPerRow \in 1..MaxRowBytes
    /\ maxBperJob = 0
    /\ jmpc = "unspawned"
    /\ Idle
    /\ EncIdle
    /\ DdlIdle

NextSetup ==
    \/ MainNewDumpWriter
    \/ MainNewJobConfig
    \/ MainWriteDDL

SpecSetup == InitSetup /\ [][NextSetup]_vars

(***************************************************************************)
(* BulkInsert and insertTuple: one call, one variable of one row per step. *)
(* A byte is a string of one character; slices are sequences of bytes.     *)
(***************************************************************************)
maxPlacesFori32 == 10

Var(name, varType, dcml, startPos, endPos, width) ==
    [Name |-> name, VarType |-> varType, DecimalPoint |-> dcml,
     Start |-> startPos, End |-> endPos, Width |-> width]

\* the data dictionaries tried
DataDicts ==
    { <<Var("A", "numeric", 1, 1, 2, 2), Var("B", "numeric", 0, 3, 3, 1)>>,
      <<Var("A", "character", 0, 1, 1, 1), Var("B", "numeric", 1, 2, 3, 2)>>,
      <<Var("A", "numeric", 0, 1, 2, 2), Var("B", "character", 1, 3, 3, 1)>>,
      <<Var("A", "numeric", 0, 1, 11, 11)>>,
      <<Var("A", "numeric", 2, 1, 3, 3)>>,
      <<Var("A", "numeric", 0, 1, 2, 2), Var("B", "numeric", 0, 3, 3, 1)>>,
      <<Var("B", "numeric", 0, 3, 3, 1), Var("A", "numeric", 0, 1, 2, 2)>>,
      <<Var("A", "numeric", 0, 0, 2, 2)>>,
      <<Var("A", "numeric", 3, 1, 2, 2)>> }

\* the bytes of the data columns tried
DataBytes == {"0", "5", " "}

Max(a, b) == IF a > b THEN a ELSE b

RECURSIVE maxEndPos(_)
maxEndPos(dd) == IF dd = <<>> THEN 0 ELSE Max(dd[Len(dd)].End, maxEndPos(SubSeq(dd, 1, Len(dd) - 1)))

\* a width taken from the last variable of the dictionary
BytesPerRowOfLastVar(dd) == (IF dd = <<>> THEN 0 ELSE dd[Len(dd)].End) + 1

BytesPerRow(dd) == maxEndPos(dd) + 1

columnType(v) ==
    IF v.VarType = "character" THEN "string"
    ELSE IF v.DecimalPoint > 0 \/ v.Width > maxPlacesFori32 THEN "float"
    ELSE "int"

\* strings.TrimLeft(sChars, "0")
RECURSIVE TrimLeftZeros(_)
TrimLeftZeros(chars) ==
    IF chars /= <<>> /\ Head(chars) = "0" THEN TrimLeftZeros(Tail(chars)) ELSE chars

\* the elements of slices.Insert(chars, i, b)
Insert(chars, i, b) == SubSeq(chars, 1, i) \o <<b>> \o SubSeq(chars, i + 1, Len(chars))

null == <<"n", "u", "l", "l">>

\* a rendering that writes nothing for a column of zeros
EmitValueNoZero(v, chars) ==
    IF " " \in Range(chars) THEN null
    ELSE CASE columnType(v) = "string" -> <<"'">> \o chars \o <<"'">>
           [] columnType(v) = "float" ->
                IF v.DecimalPoint /= 0
                THEN Insert(chars, Len(chars) - v.DecimalPoint, ".")
                ELSE chars
           [] columnType(v) = "int" -> TrimLeftZeros(chars)

\* a rendering that counts the decimal places from the left
EmitValueDecimalFromLeft(v, chars) ==
    IF " " \in Range(chars) THEN null
    ELSE CASE columnType(v) = "string" -> <<"'">> \o chars \o <<"'">>
           [] columnType(v) = "float" ->
                IF v.DecimalPoint /= 0
                THEN Insert(chars, v.DecimalPoint, ".")
                ELSE chars
           [] columnType(v) = "int" ->
                IF TrimLeftZeros(chars) = <<>> THEN <<"0">> ELSE TrimLeftZeros(chars)

\* a rendering that looks for blanks in the numeric branches only
EmitValueQuotesBlanks(v, chars) ==
    CASE columnType(v) = "string" -> <<"'">> \o chars \o <<"'">>
      [] columnType(v) = "float" ->
           IF " " \in Range(chars) THEN null
           ELSE IF v.DecimalPoint /= 0
                THEN Insert(chars, Len(chars) - v.DecimalPoint, ".")
                ELSE chars
      [] columnType(v) = "int" ->
           IF " " \in Range(chars) THEN null
           ELSE IF TrimLeftZeros(chars) = <<>> THEN <<"0">> ELSE TrimLeftZeros(chars)

\* sChars: the value insertTuple writes for variable v when row[start:end] is chars
EmitValue(v, chars) ==
    IF " " \in Range(chars) THEN null
    ELSE CASE columnType(v) = "string" -> <<"'">> \o chars \o <<"'">>
           [] columnType(v) = "float" ->
                IF v.DecimalPoint /= 0
                THEN Insert(chars, Len(chars) - v.DecimalPoint, ".")
                ELSE chars
           [] columnType(v) = "int" ->
                IF TrimLeftZeros(chars) = <<>> THEN <<"0">> ELSE TrimLeftZeros(chars)

\* slices.Insert is reached for v and chars
InsertsDecimal(v, chars) ==
    " " \notin Range(chars) /\ columnType(v) = "float" /\ v.DecimalPoint /= 0

\* buffer after slices.Insert on chars == buffer[off+start : off+end]: chars
\* has the capacity of the rest of buffer, so unless the slice ends with
\* buffer the insertion is made in place, over the byte that follows it
BufferAfterInsert(buf, off, v, chars) ==
    IF off + v.End + 1 <= Len(buf)
    THEN [k \in DOMAIN buf |->
            IF k >= off + v.Start /\ k <= off + v.End + 1
            THEN Insert(chars, Len(chars) - v.DecimalPoint, ".")[k - (off + v.Start) + 1]
            ELSE buf[k]]
    ELSE buf

\* datFile.ReadAt(buffer, off)
BulkInsertRead ==
    /\ epc = "ReadAt"
    /\ \E ok \in BOOLEAN :
         IF ok THEN epc' = "line" /\ UNCHANGED <<bulkErr>>
         ELSE epc' = "returned" /\ bulkErr' = "error reading dat file"
    /\ lineAt' = 0
    /\ UNCHANGED <<ddi, input, buffer, varAt, insertStatement, dat, emitted, bulkInsertStatement>>
    /\ UNCHANGED <<mainVars, fsVars, jmVars, parserVars, chanVars, writerVars, exitVars, faults, ddlVars>>

\* the loop of BulkInsert takes the next row and calls insertTuple
InsertTupleStart ==
    /\ epc = "line"
    /\ lineAt < Len(buffer)
    /\ insertStatement' = <<"\t", "(">>
    /\ varAt' = 1
    /\ epc' = "var"
    /\ UNCHANGED <<ddi, input, buffer, lineAt, dat, emitted, bulkInsertStatement, bulkErr>>
    /\ UNCHANGED <<mainVars, fsVars, jmVars, parserVars, chanVars, writerVars, exitVars, faults, ddlVars>>

\* an iteration that slices the row without looking at the span first
InsertTupleVarUnchecked ==
    /\ epc = "var"
    /\ varAt <= Len(ddi)
    /\ LET v == ddi[varAt]
           start == v.Start - 1
           end == v.End
           chars == SubSeq(buffer, lineAt + start + 1, lineAt + end)
       IN IF start < 0 \/ end > bytesPerRow
          THEN \* row[start:end] out of range
               /\ epc' = "panic"
               /\ UNCHANGED <<buffer, varAt, insertStatement, emitted, bulkErr>>
          ELSE IF InsertsDecimal(v, chars) /\ v.DecimalPoint > Len(chars)
          THEN /\ epc' = "panic"
               /\ UNCHANGED <<buffer, varAt, insertStatement, emitted, bulkErr>>
          ELSE /\ insertStatement' = insertStatement \o EmitValue(v, chars)
                                       \o (IF varAt /= Len(ddi) THEN <<",">> ELSE <<>>)
               /\ buffer' = IF InsertsDecimal(v, chars)
                            THEN BufferAfterInsert(buffer, lineAt, v, chars)
                            ELSE buffer
               /\ emitted' = Append(emitted, [line |-> lineAt, var |-> varAt,
                                              chars |-> chars, value |-> EmitValue(v, chars)])
               /\ varAt' = varAt + 1
               /\ UNCHANGED <<epc, bulkErr>>
    /\ UNCHANGED <<ddi, input, lineAt, dat, bulkInsertStatement>>
    /\ UNCHANGED <<mainVars, fsVars, jmVars, parserVars, chanVars, writerVars, exitVars, faults, ddlVars>>

\* one iteration of the loop of insertTuple
InsertTupleVar ==
    /\ epc = "var"
    /\ varAt <= Len(ddi)
    /\ LET v == ddi[varAt]
           start == v.Start - 1
           end == v.End
           chars == SubSeq(buffer, lineAt + start + 1, lineAt + end)
       IN IF start < 0 \/ end > bytesPerRow
          THEN \* return nil, fmt.Errorf(...): BulkInsert returns nil and the error
               /\ epc' = "returned"
               /\ bulkErr' = "error row"
               /\ UNCHANGED <<buffer, varAt, insertStatement, emitted>>
          ELSE IF InsertsDecimal(v, chars) /\ v.DecimalPoint > Len(chars)
          THEN \* slices.Insert with a negative index
               /\ epc' = "panic"
               /\ UNCHANGED <<buffer, varAt, insertStatement, emitted, bulkErr>>
          ELSE /\ insertStatement' = insertStatement \o EmitValue(v, chars)
                                       \o (IF varAt /= Len(ddi) THEN <<",">> ELSE <<>>)
               /\ buffer' = IF InsertsDecimal(v, chars)
                            THEN BufferAfterInsert(buffer, lineAt, v, chars)
                            ELSE buffer
               /\ emitted' = Append(emitted, [line |-> lineAt, var |-> varAt,
                                              chars |-> chars, value |-> EmitValue(v, chars)])
               /\ varAt' = varAt + 1
               /\ UNCHANGED <<epc, bulkErr>>
    /\ UNCHANGED <<ddi, input, lineAt, dat, bulkInsertStatement>>
    /\ UNCHANGED <<mainVars, fsVars, jmVars, parserVars, chanVars, writerVars, exitVars, faults, ddlVars>>

\* insertTuple returns the tuple, BulkInsert appends it to dat
InsertTupleReturn ==
    /\ epc = "var"
    /\ varAt > Len(ddi)
    /\ dat' = dat \o insertStatement \o <<")", ",", "\n">>
    /\ lineAt' = lineAt + bytesPerRow
    /\ epc' = "line"
    /\ UNCHANGED <<ddi, input, buffer, varAt, insertStatement, emitted, bulkInsertStatement, bulkErr>>
    /\ UNCHANGED <<mainVars, fsVars, jmVars, parserVars, chanVars, writerVars, exitVars, faults, ddlVars>>

\* a return that leaves the comma after the last tuple
BulkInsertReturnTrailingComma ==
    /\ epc = "line"
    /\ lineAt >= Len(buffer)
    /\ bulkInsertStatement' = <<"INSERT INTO ipums_tab VALUES", "\n">> \o dat
    /\ epc' = "returned"
    /\ UNCHANGED <<ddi, input, buffer, lineAt, varAt, insertStatement, dat, emitted, bulkErr>>
    /\ UNCHANGED <<mainVars, fsVars, jmVars, parserVars, chanVars, writerVars, exitVars, faults, ddlVars>>

\* after the last row: the statement, its last comma made a semicolon
BulkInsertReturn ==
    /\ epc = "line"
    /\ lineAt >= Len(buffer)
    /\ LET statement == <<"INSERT INTO ipums_tab VALUES", "\n">> \o dat IN
         bulkInsertStatement' = [statement EXCEPT ![Len(statement) - 1] = ";"]
    /\ epc' = "returned"
    /\ UNCHANGED <<ddi, input, buffer, lineAt, varAt, insertStatement, dat, emitted, bulkErr>>
    /\ UNCHANGED <<mainVars, fsVars, jmVars, parserVars, chanVars, writerVars, exitVars, faults, ddlVars>>

\* the data columns of a line tried: every filling of a short line; of a
\* longer line, zeros and then every filling of the last MaxFreeCols - 1
\* columns
DataColumns(width) ==
    IF width <= MaxFreeCols THEN [1..width -> DataBytes]
    ELSE {[k \in 1..(width - MaxFreeCols + 1) |-> "0"] \o last :
            last \in [1..(MaxFreeCols - 1) -> DataBytes]}

\* the rows of a file whose lines are the data columns and a newline
RECURSIVE Lines(_, _)
Lines(n, width) ==
    IF n = 0 THEN {<<>>}
    ELSE {cols \o <<"\n">> \o rest : cols \in DataColumns(width), rest \in Lines(n - 1, width)}

(***************************************************************************)
(* SpecEncode: BulkInsert called on its own on up to MaxEncRows rows.      *)
(***************************************************************************)
InitEncode ==
    /\ makeItDir = FALSE
    /\ pc = "none"
    /\ totBytes = 0 /\ maxBperJob = 0
    /\ jmpc = "unspawned"
    /\ Idle
    /\ ddi \in DataDicts
    /\ bytesPerRow = BytesPerRow(ddi)
    /\ \E numRows \in 1..MaxEncRows : input \in Lines(numRows, bytesPerRow - 1)
    /\ buffer = input
    /\ lineAt = 0 /\ varAt = 0
    /\ insertStatement = <<>> /\ dat = <<>> /\ emitted = <<>>
    /\ epc = "ReadAt" /\ bulkInsertStatement = <<>> /\ bulkErr = "nil"
    /\ DdlIdle

NextEncode ==
    \/ BulkInsertRead
    \/ InsertTupleStart
    \/ InsertTupleVar
    \/ InsertTupleReturn
    \/ BulkInsertReturn

SpecEncode == InitEncode /\ [][NextEncode]_vars

(***************************************************************************)
(* WriteDDL: CreateMainTable, CreateRefTables, CreateIndices and the write *)
(* to the schema file.  A statement is a record of its parts.              *)
(***************************************************************************)
maxCharsInLab == 1000

\* intrvl attributes tried: the two the DDI uses and one it does not
Intervals == {"contin", "discrete", "ordinal"}

\* a category of a discrete variable
Cat(val, label) == [Val |-> val, Label |-> label]

\* a variable of the data dictionary with what the DDL is made of
DdlVar(name, varType, dcml, startPos, endPos, width, intrvl, label, cats) ==
    [Name |-> name, VarType |-> varType, DecimalPoint |-> dcml,
     Start |-> startPos, End |-> endPos, Width |-> width,
     Interval |-> intrvl, Label |-> label, Cats |-> cats]

\* the data dictionaries WriteDDL is tried on
DdlDicts ==
    { <<DdlVar(DdiVarNames[1], "numeric", d, 1, 2, 2, i1, "Age", <<>>),
        DdlVar(DdiVarNames[2], t, 0, 3, 3, 1, i2, "Sex",
               <<Cat("1", <<"M">>), Cat("2", <<"F", "'", "s">>)>>)>> :
        d \in {0, 1}, t \in {"numeric", "character"}, i1 \in Intervals, i2 \in Intervals }

\* getDataTypes
getDataTypes(dbType) ==
    CASE ToLower(dbType) \in {"postgres", "mssql"} ->
           [int |-> "int", float |-> "numeric", string |-> "varchar"]
      [] ToLower(dbType) = "mysql" ->
           [int |-> "int", float |-> "decimal", string |-> "varchar"]
      [] ToLower(dbType) = "oracle" ->
           [int |-> "int", float |-> "number", string |-> "varchar2"]

\* the character CreateMainTable puts around a column name, by its name
colEscChr(dbType) ==
    CASE dbType \in {"postgres", "oracle", "mssql"} -> "dquote"
      [] dbType = "mysql" -> "backtick"
      [] OTHER -> ""

\* a type keyword and its arguments
TypeToUse(keyword, args) == [keyword |-> keyword, args |-> args]

\* CreateMainTable: one column per variable; the error returned is always nil
CreateMainTable(dbf, dd) ==
    LET column(i) ==
          LET v == dd[i]
              DataTypes == getDataTypes(dbf.DbType)
          IN [esc |-> colEscChr(dbf.DbType),
              name |-> ToLower(v.Name),
              type |-> CASE columnType(v) = "float" ->
                              TypeToUse(DataTypes.float, <<v.Width, v.DecimalPoint>>)
                         [] columnType(v) = "string" ->
                              TypeToUse(DataTypes.string, <<v.Width>>)
                         [] columnType(v) = "int" ->
                              TypeToUse(DataTypes.int, <<>>),
              addComma |-> IF i = Len(dd) THEN "" ELSE ",",
              label |-> v.Label]
    IN [out |-> <<[statement |-> "CREATE TABLE",
                   table |-> <<dbf.TableName>>,
                   columns |-> [i \in DOMAIN dd |-> column(i)]]>>,
        err |-> "nil"]

\* strings.ReplaceAll(label, "'", "''")
RECURSIVE escapedLabel(_)
escapedLabel(label) ==
    IF label = <<>> THEN <<>>
    ELSE (IF Head(label) = "'" THEN <<"'", "'">> ELSE <<Head(label)>>)
           \o escapedLabel(Tail(label))

\* the two statements CreateRefTables makes for v
RefTable(dbf, v) ==
    <<[statement |-> "CREATE TABLE",
       table |-> <<"ref_", ToLower(v.Name)>>,
       val |-> columnType(v),
       label |-> TypeToUse(getDataTypes(dbf.DbType).string, <<maxCharsInLab>>)],
      [statement |-> "INSERT INTO",
       table |-> <<"ref_", ToLower(v.Name)>>,
       values |-> [i \in DOMAIN v.Cats |->
                     [val |-> v.Cats[i].Val,
                      label |-> escapedLabel(v.Cats[i].Label),
                      addComma |-> IF i = Len(v.Cats) THEN "\n" ELSE ","]]]>>

\* CreateRefTables: the statements of the discrete variables, from the i-th on
RECURSIVE CreateRefTablesFrom(_, _, _)
CreateRefTablesFrom(dbf, dd, i) ==
    IF i > Len(dd) THEN <<>>
    ELSE (IF dd[i].Interval = "discrete" THEN RefTable(dbf, dd[i]) ELSE <<>>)
           \o CreateRefTablesFrom(dbf, dd, i + 1)

\* a CreateRefTables that makes a table for every variable
CreateRefTablesAllVars(dbf, dd) ==
    CreateRefTablesFrom(dbf, [i \in DOMAIN dd |-> [dd[i] EXCEPT !.Interval = "discrete"]], 1)

CreateRefTables(dbf, dd) == CreateRefTablesFrom(dbf, dd, 1)

\* tableSQL, err := dbfmtr.CreateMainTable(ddi)
WriteDDLCreateMainTable ==
    /\ dpc = "CreateMainTable"
    /\ LET r == CreateMainTable(dbfmtr, ddi) IN
         /\ tableSQL' = r.out
         /\ IF r.err /= "nil"
            THEN ddlErr' = "table creation" /\ dpc' = "returned"
            ELSE dpc' = "CreateRefTables" /\ UNCHANGED ddlErr
    /\ UNCHANGED <<dbfmtr, indices, refTablesSQL, idxSQL, schemaFile>>
    /\ UNCHANGED <<mainVars, fsVars, jmVars, parserVars, chanVars, writerVars, exitVars, faults, encVars>>

\* refTablesSQL := dbfmtr.CreateRefTables(ddi)
WriteDDLCreateRefTables ==
    /\ dpc = "CreateRefTables"
    /\ refTablesSQL' = CreateRefTables(dbfmtr, ddi)
    /\ dpc' = "CreateIndices"
    /\ UNCHANGED <<dbfmtr, indices, tableSQL, idxSQL, ddlErr, schemaFile>>
    /\ UNCHANGED <<mainVars, fsVars, jmVars, parserVars, chanVars, writerVars, exitVars, faults, encVars>>

\* indicesSQL, err := dbfmtr.CreateIndices(ddi, indices)
WriteDDLCreateIndices ==
    /\ dpc = "CreateIndices"
    /\ LET r == CreateIndices(indices) IN
         /\ idxSQL' = r.out
         /\ IF r.err
            THEN ddlErr' = "index creation" /\ dpc' = "returned"
            ELSE dpc' = "Write" /\ UNCHANGED ddlErr
    /\ UNCHANGED <<dbfmtr, indices, tableSQL, refTablesSQL, schemaFile>>
    /\ UNCHANGED <<mainVars, fsVars, jmVars, parserVars, chanVars, writerVars, exitVars, faults, encVars>>

\* dw.SchemaFile.Write(buffer)
WriteDDLWrite ==
    /\ dpc = "Write"
    /\ \E ok \in BOOLEAN :
         IF ok
         THEN /\ schemaFile' = schemaFile \o tableSQL \o refTablesSQL \o idxSQL
              /\ UNCHANGED ddlErr
         ELSE /\ ddlErr' = "DDL write"
              /\ UNCHANGED schemaFile
    /\ dpc' = "returned"
    /\ UNCHANGED <<dbfmtr, indices, tableSQL, refTablesSQL, idxSQL>>
    /\ UNCHANGED <<mainVars, fsVars, jmVars, parserVars, chanVars, writerVars, exitVars, faults, encVars>>

(***************************************************************************)
(* SpecDDL: WriteDDL called on its own with a formatter NewDBFormatter     *)
(* accepted.                                                               *)
(***************************************************************************)
InitDDL ==
    /\ makeItDir = FALSE
    /\ pc = "none"
    /\ totBytes = 0 /\ maxBperJob = 0
    /\ jmpc = "unspawned"
    /\ Idle
    /\ ddi \in DdlDicts
    /\ bytesPerRow = BytesPerRow(ddi)
    /\ input = <<>> /\ buffer = <<>>
    /\ lineAt = 0 /\ varAt = 0
    /\ insertStatement = <<>> /\ dat = <<>> /\ emitted = <<>>
    /\ epc = "none" /\ bulkInsertStatement = <<>> /\ bulkErr = "nil"
    /\ \E dbType \in DbTypes, tableName \in TableNames :
         /\ NewDBFormatterErr(dbType, tableName) = "nil"
         /\ dbfmtr = [DbType |-> dbType, TableName |-> tableName]
    /\ indices \in IndexRequests
    /\ tableSQL = <<>> /\ refTablesSQL = <<>> /\ idxSQL = <<>>
    /\ ddlErr = "nil" /\ dpc = "CreateMainTable" /\ schemaFile = <<>>

NextDDL ==
    \/ WriteDDLCreateMainTable
    \/ WriteDDLCreateRefTables
    \/ WriteDDLCreateIndices
    \/ WriteDDLWrite

SpecDDL == InitDDL /\ [][NextDDL]_vars

(***************************************************************************)
(* Claims about MakeParsingJobsStream                                      *)
(***************************************************************************)
RECURSIVE SumRows(_)
SumRows(s) == IF s = <<>> THEN 0 ELSE s[1].RowsToRead + SumRows(Tail(s))

ValidSizing == bytesPerRow <= maxBperJob /\ maxBperJob <= totBytes

\* C1: for sizes that pass validation the jobs sent start at row 0, each job
\* starts where the previous one ended, in strictly increasing order, every
\* job but the last has maxBytesPerJob div bytesPerRow rows, the last one has
\* the remaining rows and the row counts add up to totBytes div bytesPerRow.
C1_JobsPartitionRows ==
    ValidSizing =>
        /\ sent /= <<>> => sent[1].StartAtRow = 0
        /\ \A i \in 1..(Len(sent) - 1) :
              /\ sent[i + 1].StartAtRow = sent[i].StartAtRow + sent[i].RowsToRead
              /\ sent[i + 1].StartAtRow > sent[i].StartAtRow
              /\ sent[i].RowsToRead = maxBperJob \div bytesPerRow
        /\ jmpc = "returned" =>
              /\ jmErr = "nil"
              /\ sent /= <<>>
              /\ sent[Len(sent)].RowsToRead
                    = (totBytes \div bytesPerRow) - sent[Len(sent)].StartAtRow
              /\ SumRows(sent) = totBytes \div bytesPerRow

\* a call that returned after sending at least three jobs, the last one short
C1_Witness ==
    /\ pc = "none" /\ jmpc = "returned" /\ ValidSizing
    /\ Len(sent) >= 3
    /\ sent[Len(sent)].RowsToRead < sent[1].RowsToRead

\* C8: the call returns an error, having sent no job, exactly when
\* maxBytesPerJob < bytesPerRow or maxBytesPerJob > totBytes or
\* bytesPerRow > totBytes; otherwise it returns nil.
C8_ValidationRejects ==
    LET bad == \/ maxBperJob < bytesPerRow
               \/ maxBperJob > totBytes
               \/ bytesPerRow > totBytes
    IN /\ bad => sent = <<>> /\ jobClosed = FALSE
       /\ jmpc = "returned" => (jmErr /= "nil" <=> bad)

\* a call rejected only because maxBytesPerJob exceeds totBytes
C8_Witness ==
    /\ pc = "none" /\ jmpc = "returned" /\ jmErr /= "nil"
    /\ bytesPerRow <= totBytes /\ maxBperJob > totBytes /\ sent = <<>>

(***************************************************************************)
(* Claims about the pipeline                                               *)
(***************************************************************************)
Success == exited /\ exitCode = 0
Aborted == exited /\ exitCode = 1
ExitTopic == IF exited THEN exitMsg[1] ELSE "none"
Written(f) == Range(content[f]) \ {DDL}
Copies(block, f) == Cardinality({k \in DOMAIN content[f] : content[f][k] = block})
WriterFailed(w) == wpc[w] \in {"FileCleanup", "exitFunc"}
ErrPublished == CopiesIn(NilBlock, published) > 0

\* C2: when a writer has received a block with an error, or a write of a
\* writer has failed, no file created by the run (schema file, insertion
\* files, written or not) exists once the process has exited.
C2_AbortDeletesFiles ==
    (exited /\ \E w \in DOMAIN wpc : WriterFailed(w)) => fexists = {}

\* a run with two insertion files that exited through one writer while the
\* other writer, failed too, was still in the middle of its own FileCleanup
C2_Witness ==
    /\ exited /\ Len(dw.OutFiles) = 2
    /\ \E w \in DOMAIN wpc : wpc[w] = "FileCleanup" /\ wk[w] = 1
    /\ \E w \in DOMAIN wpc : wpc[w] = "exitFunc"

\* C3: with -d, when a writer aborts the run the output directory made by
\* NewDumpWriter does not exist any more once the process has exited.
C3_AbortRemovesDirectory ==
    (exited /\ makeItDir /\ \E w \in DOMAIN wpc : WriterFailed(w)) => ~dirExists

\* C4: in a run that reports success every job sent was received once from
\* jobStream, its block was sent once and received once on parsedBlockStream
\* and stands exactly once in exactly one output file; nothing else was
\* taken, sent or written.
C4_ExactlyOnce ==
    Success =>
        /\ \A i \in DOMAIN sent :
              LET block == BulkInsert(sent[i]) IN
                /\ CopiesIn(sent[i], taken) = 1
                /\ CopiesIn(block, published) = 1
                /\ CopiesIn(block, received) = 1
                /\ \E f \in DOMAIN content :
                      /\ Copies(block, f) = 1
                      /\ \A g \in DOMAIN content \ {f} : Copies(block, g) = 0
        /\ BagCardinality(taken) = Len(sent)
        /\ BagCardinality(published) = Len(sent)
        /\ BagCardinality(received) = Len(sent)
        /\ \A f \in DOMAIN content :
              Written(f) \subseteq {BulkInsert(sent[i]) : i \in DOMAIN sent}
        /\ parsedStream = <<>>

\* a successful run of two jobs, one block in each of two insertion files
C4_Witness ==
    /\ Success /\ Len(sent) = 2 /\ Len(dw.OutFiles) = 2
    /\ \A w \in DOMAIN wpc : Written(dw.OutFiles[w]) /= {}

\* C5: once a parser has sent a ParsedResult with an error the run never
\* reports success, and it ends with exit status 1.
C5_ErrorBlockAborts ==
    /\ [](ErrPublished => ~Success)
    /\ ErrPublished ~> Aborted

\* a run ended by a writer that received a block with an error
C5_Witness ==
    /\ Aborted /\ ErrPublished
    /\ exitMsg = <<"DumpWriter", "encountered error parsing">>

AnyFailure == Aborted \/ faults > 0 \/ jmErr /= "nil"

CleanFinish ==
    /\ Success
    /\ jmpc = "done" /\ jobClosed
    /\ \A p \in DOMAIN ppc : ppc[p] = "returned"
    /\ parsedClosed /\ parsedStream = <<>>
    /\ \A w \in DOMAIN wpc : wpc[w] = "returned" /\ dw.OutFiles[w] \notin fopen

\* C6: under fair scheduling a run without any failure ends: jobStream is
\* closed, every parser has returned, parsedBlockStream is closed and
\* drained, every writer has closed its file and returned, and main has
\* passed the three wait groups and reported success.
C6_PipelineTerminates == <>(AnyFailure \/ CleanFinish)

\* a clean finish of a run of two jobs, two parsers and two writers
C6_Witness ==
    /\ CleanFinish /\ faults = 0
    /\ Len(sent) = 2 /\ nParsers = 2 /\ Len(dw.OutFiles) = 2

\* C7: a parser that failed to open the input file has sent one
\* ParsedResult carrying the error before it returned.
C7_OpenFailurePublishesError ==
    Cardinality({p \in DOMAIN ppc : ppc[p] = "openErr"}) <= CopiesIn(NilBlock, published)

\* C9: a run that exits because MakeParsingJobsStream rejected the sizes
\* leaves no output file and no output directory.
C9_InvalidSizingLeavesNothing ==
    (exited /\ ExitTopic = "parsing") => (fexists = {} /\ ~dirExists)

\* C10: a run that exits because an index was requested on a name that is
\* not in the dictionary leaves no output file and no output directory, and
\* has written no DDL.
C10_UnknownIndexLeavesNothing ==
    (exited /\ exitMsg = <<"write DDL", "index creation">>) =>
        /\ fexists = {} /\ ~dirExists
        /\ \A f \in DOMAIN content : content[f] = <<>>

NothingSpawned ==
    /\ jmpc = "unspawned" /\ cpc = "unspawned"
    /\ ppc = <<>> /\ wpc = <<>>
    /\ sent = <<>> /\ parsedStream = <<>>

InsertsIn(f) == {k \in DOMAIN content[f] : content[f][k] /= DDL}
DDLWritten == dw.SchemaFile \in DOMAIN content /\ DDL \in Range(content[dw.SchemaFile])
BeforeOrInWriteDDL ==
    pc \in {"TotalBytes", "NewDBFormatter", "NewDataDict", "NewDumpWriter", "NewJobConfig", "WriteDDL"}

\* C11: until WriteDDL has returned nil no job maker, parser, closer or
\* writer is spawned and no INSERT block stands in any file; a run in which
\* WriteDDL failed exits with nothing spawned; whenever something is spawned
\* the DDL has been written to the schema file; and without -d the DDL is
\* the first thing in the file, before every INSERT block.
C11_SchemaBeforeRows ==
    /\ BeforeOrInWriteDDL =>
          /\ NothingSpawned
          /\ \A f \in DOMAIN content : InsertsIn(f) = {}
    /\ ExitTopic = "write DDL" => NothingSpawned /\ BeforeOrInWriteDDL
    /\ ~NothingSpawned => DDLWritten
    /\ (\E f \in DOMAIN content : InsertsIn(f) /= {}) => DDLWritten
    /\ (~makeItDir /\ 0 \in DOMAIN content /\ content[0] /= <<>>) =>
          /\ content[0][1] = DDL
          /\ \A k \in InsertsIn(0) : k > 1
          /\ \A k \in DOMAIN content[0] : k > 1 => content[0][k] /= DDL

\* a successful run without -d whose file holds the DDL and then two blocks
C11_Witness ==
    /\ Success /\ ~makeItDir
    /\ Len(content[0]) = 3 /\ content[0][1] = DDL
    /\ InsertsIn(0) = {2, 3}

RECURSIVE BlockRows(_)
BlockRows(blocks) ==
    IF blocks = <<>> THEN 0
    ELSE (IF Head(blocks) = DDL THEN 0 ELSE Head(blocks)[3]) + BlockRows(Tail(blocks))

\* bytes of the fixed-width file whose SQL stands in file f
RawBytesIn(f) == BlockRows(content[f]) * bytesPerRow

\* C12: with -d, no insertion file holds the SQL of more than
\* maxBytesPerFile bytes of the fixed-width file, however the writers share
\* the blocks of parsedBlockStream.
C12_ShardWithinCeiling ==
    makeItDir =>
        \A w \in DOMAIN wpc : RawBytesIn(dw.OutFiles[w]) <= maxBytesPerFile

\* jobs received from jobStream whose block is held by a parser, stands in
\* parsedBlockStream or is held by a writer that has not yet written it
HeldBy(results) == {i \in DOMAIN results : results[i].Block /= NilBlock}
UnitsInFlight ==
    Cardinality(HeldBy(pres)) + Cardinality(HeldBy(parsedStream)) + Cardinality(HeldBy(wres))

\* C13: at every moment the jobs taken from jobStream and not yet written
\* to a file number at most nParsers + number of writers, so that together
\* they hold at most maxBytesofDatFileInMemory bytes of the input file.
C13_InFlightWithinCeiling ==
    /\ UnitsInFlight <= nParsers + Len(dw.OutFiles)
    /\ UnitsInFlight * maxBperJob <= maxBytesofDatFileInMemory

JobConfigMade ==
    pc \notin {"none", "TotalBytes", "NewDBFormatter", "NewDataDict", "NewDumpWriter", "NewJobConfig"}

\* C14: whatever runtime.NumCPU() and the number of writers are, the
\* NumParsers of the JobConfig lies between MINPARSERS and MAXPARSERS.
C14_ParsersWithinBounds ==
    JobConfigMade => (MINPARSERS <= nParsers /\ nParsers <= MAXPARSERS)

\* C15: parsedBlockStream has room for nParsers results, it never holds
\* more, and a parser that has a result to send while the channel is full
\* stays at its send, taking no further job, until a writer has received.
C15_ResultStreamBounded ==
    /\ [](JobConfigMade => nBuffRes = nParsers)
    /\ [](Len(parsedStream) <= nParsers)
    /\ [][\A p \in DOMAIN ppc :
            (ppc[p] = "send" /\ Len(parsedStream) >= nParsers) =>
                (ppc'[p] = "send" /\ pres'[p] = pres[p])]_vars

\* a parser holding the block of a second job in front of the full channel
C15_Witness ==
    \E p \in DOMAIN ppc :
        /\ ppc[p] = "send" /\ pres[p].Block /= NilBlock
        /\ nParsers >= 1 /\ Len(parsedStream) = nParsers
        /\ BagCardinality(taken) = nParsers + 1
        /\ \E w \in DOMAIN wpc : wpc[w] = "recv"

\* the goroutine of writer w has not returned
OwnerRunning(w) == wpc[w] /= "returned"
\* the step is a step of writer w
StepOf(w) == wpc'[w] /= wpc[w] \/ wk'[w] /= wk[w]
WrittenTo(f) == content'[f] /= content[f]
ClosedOrDeleted(f) == (f \in fopen /\ f \notin fopen') \/ (f \in fexists /\ f \notin fexists')

\* C16 as claimed: while the writer of an output file is running, every
\* step that writes to the file, closes it or deletes it is a step of that
\* writer, in aborted runs too.
C16_OnlyOwnerTouchesFile ==
    [][\A w \in DOMAIN wpc :
          (OwnerRunning(w) /\ (WrittenTo(dw.OutFiles[w]) \/ ClosedOrDeleted(dw.OutFiles[w])))
              => StepOf(w)]_vars

\* C16 as amended: while the writer of an output file is running, every
\* step that writes to the file is a step of that writer, and every step
\* that closes or deletes it is a step of that writer or a step of the
\* FileCleanup of a writer that has failed.
C16_OnlyOwnerWrites ==
    [][\A w \in DOMAIN wpc :
          /\ (OwnerRunning(w) /\ WrittenTo(dw.OutFiles[w])) => StepOf(w)
          /\ (OwnerRunning(w) /\ ClosedOrDeleted(dw.OutFiles[w])) =>
                \/ StepOf(w)
                \/ \E v \in DOMAIN wpc : wpc[v] = "FileCleanup" /\ StepOf(v)]_vars

\* the second writer has written a block to its file and is at its receive
\* when the FileCleanup of the first writer, which failed, has deleted that
\* file
C16_Witness ==
    /\ Len(dw.OutFiles) = 2 /\ DOMAIN wpc = {1, 2}
    /\ Written(dw.OutFiles[2]) /= {}
    /\ wpc[1] = "exitFunc"
    /\ wpc[2] = "recv" /\ dw.OutFiles[2] \notin fexists

\* NewDumpWriter has returned a DumpWriter and nothing has been removed since
DumpWriterMade == pc \in {"NewJobConfig", "WriteDDL", "spawnJobMaker"}

\* C17: with -d, NewDumpWriter creates ddl.sql and n insertion files, n
\* being totBytes / maxBytesPerFile rounded up: n files of maxBytesPerFile
\* bytes hold totBytes bytes and n - 1 do not; twice the ceiling and a
\* remainder make three insertion files.
C17_ShardCountIsCeiling ==
    (DumpWriterMade /\ makeItDir) =>
        LET n == Len(dw.OutFiles) IN
          /\ n * maxBytesPerFile >= totBytes
          /\ (n - 1) * maxBytesPerFile < totBytes
          /\ dw.SchemaFile = 0
          /\ Range(dw.OutFiles) = 1..n
          /\ fexists = 0..n
          /\ dirExists

\* a directory with ddl.sql and three insertion files, the third one for
\* the remainder above twice the ceiling
C17_Witness ==
    /\ DumpWriterMade /\ makeItDir
    /\ totBytes > 2 * maxBytesPerFile /\ totBytes < 3 * maxBytesPerFile
    /\ Len(dw.OutFiles) = 3 /\ fexists = 0..3

\* C18 as claimed: NewDumpWriter makes a directory with a schema file and
\* the insertion files exactly when the number of files it computes from
\* totBytes and maxBytesPerFile is greater than one, and one combined file
\* otherwise.
C18_LayoutByShardCount ==
    DumpWriterMade =>
        /\ dirExists <=> numOutFiles(totBytes) > 1
        /\ ~dirExists => (fexists = {0} /\ dw.OutFiles = <<dw.SchemaFile>>)

\* C18 as amended: NewDumpWriter makes a directory with a schema file and
\* the computed number of insertion files exactly when -d is given, and one
\* combined file, schema file and only OutFile at once, otherwise.
C18_LayoutByFlag ==
    DumpWriterMade =>
        /\ dirExists <=> makeItDir
        /\ dirExists =>
              /\ Len(dw.OutFiles) = numOutFiles(totBytes)
              /\ dw.SchemaFile \notin Range(dw.OutFiles)
              /\ fexists = {dw.SchemaFile} \cup Range(dw.OutFiles)
              /\ Cardinality(fexists) = numOutFiles(totBytes) + 1
        /\ ~dirExists => (fexists = {0} /\ dw.OutFiles = <<dw.SchemaFile>>)

\* a directory with ddl.sql and inserts_0.sql, made with -d for a file that
\* fits in one insertion file
C18_Witness ==
    /\ DumpWriterMade /\ makeItDir
    /\ totBytes > 0 /\ numOutFiles(totBytes) = 1
    /\ fexists = {0, 1} /\ dirExists

(***************************************************************************)
(* Claims about BulkInsert and insertTuple                                 *)
(***************************************************************************)
\* the bytes of variable v in the row at offset line, as they were read
InputSlice(line, v) == SubSeq(input, line + v.Start, line + v.End)

\* C19: every value written was made of the bytes the file holds at the
\* span of its own variable in its own row, End - Start + 1 of them, and is
\* what those bytes alone give: writing the value of one variable changes
\* nothing in what the other variables and the later rows are made of.
C19_ValueFromOwnSpan ==
    \A k \in DOMAIN emitted :
        LET e == emitted[k]
            v == ddi[e.var]
        IN /\ Len(e.chars) = v.End - v.Start + 1
           /\ e.chars = InputSlice(e.line, v)
           /\ e.value = EmitValue(v, InputSlice(e.line, v))

\* C20: whenever the slice insertTuple takes for a variable holds a blank,
\* the value written is null, whether the column is a string, an int or a
\* float, with or without decimal places, whatever its width.
C20_BlankIsNull ==
    \A k \in DOMAIN emitted :
        " " \in Range(emitted[k].chars) => emitted[k].value = null

\* a row in which a string column and a column with a decimal place were
\* both written as null because of a blank
C20_Witness ==
    /\ epc = "returned" /\ bulkErr = "nil"
    /\ \E j, k \in DOMAIN emitted :
          /\ emitted[j].line = emitted[k].line
          /\ columnType(ddi[emitted[j].var]) = "string"
          /\ columnType(ddi[emitted[k].var]) = "float" /\ ddi[emitted[k].var].DecimalPoint > 0
          /\ emitted[j].chars = <<" ">> /\ emitted[j].value = null
          /\ emitted[k].chars = <<"5", " ">> /\ emitted[k].value = null

\* value is chars without its leading zeros, or one zero when chars is zeros
ZerosStripped(chars, value) ==
    \E n \in 0..Len(chars) :
        /\ \A i \in 1..n : chars[i] = "0"
        /\ IF n = Len(chars) THEN value = <<"0">>
           ELSE value = SubSeq(chars, n + 1, Len(chars)) /\ chars[n + 1] /= "0"

NoBlank(chars) == " " \notin Range(chars)

\* C21 as claimed: the value written for a numeric variable without decimal
\* places whose slice holds no blank is the slice without its leading zeros,
\* or 0 when the slice is all zeros, whatever the width of the variable.
C21_IntegerStripsZeros ==
    \A k \in DOMAIN emitted :
        LET e == emitted[k]
            v == ddi[e.var]
        IN (NoBlank(e.chars) /\ v.VarType = "numeric" /\ v.DecimalPoint = 0)
              => ZerosStripped(e.chars, e.value)

\* C21 as amended: the same for variables of width up to maxPlacesFori32;
\* a wider numeric variable without decimal places is written as the slice
\* itself, leading zeros included.
C21_NarrowIntegerStripsZeros ==
    \A k \in DOMAIN emitted :
        LET e == emitted[k]
            v == ddi[e.var]
        IN (NoBlank(e.chars) /\ v.VarType = "numeric" /\ v.DecimalPoint = 0) =>
              IF v.Width <= maxPlacesFori32
              THEN ZerosStripped(e.chars, e.value)
              ELSE e.value = e.chars

\* 00 written as 0 and 05 written as 5 in the two rows of one call
C21_Witness ==
    /\ epc = "returned" /\ bulkErr = "nil"
    /\ \E j, k \in DOMAIN emitted :
          /\ emitted[j].var = emitted[k].var
          /\ columnType(ddi[emitted[j].var]) = "int"
          /\ emitted[j].chars = <<"0", "0">> /\ emitted[j].value = <<"0">>
          /\ emitted[k].chars = <<"0", "5">> /\ emitted[k].value = <<"5">>

\* value is chars with a decimal point before its last d bytes
DecimalPlaced(chars, d, value) ==
    /\ d <= Len(chars)
    /\ Len(value) = Len(chars) + 1
    /\ value[Len(chars) - d + 1] = "."
    /\ SubSeq(value, 1, Len(chars) - d) = SubSeq(chars, 1, Len(chars) - d)
    /\ SubSeq(value, Len(chars) - d + 2, Len(value)) = SubSeq(chars, Len(chars) - d + 1, Len(chars))

NumRows == Len(input) \div bytesPerRow

\* the values written for row r (from 0) from variable j on, sep between them
RECURSIVE ValuesFrom(_, _, _)
ValuesFrom(r, j, sep) ==
    IF j > Len(ddi) THEN <<>>
    ELSE emitted[r * Len(ddi) + j].value
           \o (IF j < Len(ddi) THEN sep ELSE <<>>)
           \o ValuesFrom(r, j + 1, sep)

\* the tuples of rows r .. NumRows - 1, a comma and a newline after each but
\* the last, a semicolon and a newline after the last
RECURSIVE TuplesFrom(_, _)
TuplesFrom(r, sep) ==
    IF r >= NumRows THEN <<>>
    ELSE <<"\t", "(">> \o ValuesFrom(r, 1, sep) \o <<")">>
           \o (IF r = NumRows - 1 THEN <<";", "\n">> ELSE <<",", "\n">>)
           \o TuplesFrom(r + 1, sep)

\* one value was written for every variable of every row, in row order and
\* in the order of the variables
OneValuePerField ==
    /\ Len(emitted) = NumRows * Len(ddi)
    /\ \A r \in 0..(NumRows - 1) : \A j \in 1..Len(ddi) :
          /\ emitted[r * Len(ddi) + j].line = r * bytesPerRow
          /\ emitted[r * Len(ddi) + j].var = j

\* BulkInsert returned a block
BlockReturned == epc = "returned" /\ bulkErr = "nil"

\* C23 as claimed: the block of a work unit of N rows is INSERT INTO <table>
\* VALUES, then N tuples in row order, each of one value per variable in
\* the order of the variables, a comma and a space between the values as in
\* (1, 9) and (1, null), a comma and a newline between tuples and a
\* semicolon after the last.
C23_TuplesCommaSpace ==
    BlockReturned =>
        /\ OneValuePerField
        /\ bulkInsertStatement =
              <<"INSERT INTO ipums_tab VALUES", "\n">> \o TuplesFrom(0, <<",", " ">>)

\* C23 as amended: the same with one comma and no space between the values
\* of a tuple, as in (1,9) and (1,null).
C23_TuplesComma ==
    BlockReturned =>
        /\ OneValuePerField
        /\ bulkInsertStatement =
              <<"INSERT INTO ipums_tab VALUES", "\n">> \o TuplesFrom(0, <<",">>)

\* rows 055 and 05-blank over A[1,2], B[3,3] give (5,5) and (5,null)
C23_Witness ==
    /\ BlockReturned
    /\ input = <<"0", "5", "5", "\n", "0", "5", " ", "\n">>
    /\ Len(ddi) = 2 /\ columnType(ddi[1]) = "int" /\ columnType(ddi[2]) = "int"
    /\ bulkInsertStatement =
          <<"INSERT INTO ipums_tab VALUES", "\n",
            "\t", "(", "5", ",", "5", ")", ",", "\n",
            "\t", "(", "5", ",", "n", "u", "l", "l", ")", ";", "\n">>

\* the span of v does not fit a row of the given length
MalformedSpan(v, rowLen) == v.Start - 1 < 0 \/ v.End > rowLen

\* the encoding has stopped, with or without a result
EncodingOver == epc \in {"returned", "panic"}

\* C24: when the span of some variable does not fit the row, BulkInsert
\* comes back with an error and no payload; it does not panic, and it has
\* written no complete tuple.
C24_MalformedSpanIsErrorValue ==
    ((\E i \in DOMAIN ddi : MalformedSpan(ddi[i], bytesPerRow)) /\ EncodingOver) =>
        /\ epc = "returned"
        /\ bulkErr /= "nil"
        /\ bulkInsertStatement = <<>>
        /\ dat = <<>>

\* a variable with Start 0 met in the first row: error row, no payload
C24_Witness ==
    /\ epc = "returned"
    /\ bulkErr = "error row"
    /\ bulkInsertStatement = <<>>
    /\ MalformedSpan(ddi[1], bytesPerRow)

(***************************************************************************)
(* Claims about WriteDDL                                                   *)
(***************************************************************************)
\* the variables of the dictionary whose interval is discrete
DiscreteVars == {i \in DOMAIN ddi : ddi[i].Interval = "discrete"}

\* WriteDDL is past its call of CreateRefTables
PastCreateRefTables == dpc \in {"CreateIndices", "Write", "returned"}

C26_UnknownIntervalFails ==
    ((\E i \in DOMAIN ddi : ddi[i].Interval \notin {"contin", "discrete"})
        /\ dpc \in {"CreateRefTables", "CreateIndices", "Write", "returned"}) =>
        /\ ddlErr = "table creation"
        /\ tableSQL = <<>>

\* every column asked for is the name of a variable, letter case aside
AllKnown(cols) ==
    \A i \in DOMAIN cols : \E j \in DOMAIN ddi : ToLower(cols[i]) = ToLower(ddi[j].Name)

\* C27: CreateIndices returns an error exactly when some column asked for
\* is not the name of a variable, letter case aside; with the error it
\* returns no statement, without it one statement for each column.
C27_IndicesAllOrNothing ==
    (dpc \in {"Write", "returned"}) =>
        /\ (ddlErr = "index creation") <=> ~AllKnown(indices)
        /\ ~AllKnown(indices) => (idxSQL = <<>> /\ schemaFile = <<>>)
        /\ AllKnown(indices) =>
              /\ Len(idxSQL) = Len(indices)
              /\ \A i \in DOMAIN indices : idxSQL[i] = <<"CREATE INDEX", indices[i]>>

\* an unknown column after a known one: an error and no statement
C27_Witness ==
    /\ dpc = "returned"
    /\ indices = <<"age", "zzz">>
    /\ ddlErr = "index creation"
    /\ idxSQL = <<>>

(***************************************************************************)
(* Claims about the setup of main                                          *)
(***************************************************************************)
\* main is past its call of NewDBFormatter
PastNewDBFormatter == pc \notin {"TotalBytes", "NewDBFormatter"}

\* C28: a run gets past NewDBFormatter only with one of the four dialects
\* and a table name that is not empty; a run that NewDBFormatter stops
\* exits with code 1 at that call, with no output directory made, no file
\* created or open and no DumpWriter.
C28_BadFormatterStopsRun ==
    /\ PastNewDBFormatter =>
          /\ DOMAIN dbfmtr = {"DbType", "TableName"}
          /\ dbfmtr.TableName /= ""
          /\ ToLower(dbfmtr.DbType) \in {"postgres", "oracle", "mysql", "mssql"}
    /\ ExitTopic = "DBFormatter" =>
          /\ pc = "NewDBFormatter" /\ exitCode = 1
          /\ exitMsg[2] \in {"tableName can not be empty", "could not get data types"}
          /\ ~dirExists /\ fexists = {} /\ fopen = {}
          /\ dw.OutFiles = <<>>

\* a run stopped by NewDBFormatter
C28_Witness ==
    /\ ExitTopic = "DBFormatter"
    /\ exitMsg[2] = "could not get data types"
    /\ fexists = {} /\ ~dirExists

(***************************************************************************)
(* Claims about the row width                                              *)
(***************************************************************************)
\* C29: the row width is one more than the greatest End of the variables
\* of the dictionary, and it is the width by which the rows are cut: the
\* bytes read are whole rows of that width, every row starts at a multiple
\* of it and ends with the newline, and every value is made of the End -
\* Start + 1 bytes of its span inside its row.
C29_RowWidthIsMaxEndPlusOne ==
    (epc /= "none") =>
        /\ \A i \in DOMAIN ddi : ddi[i].End <= bytesPerRow - 1
        /\ \E i \in DOMAIN ddi : ddi[i].End = bytesPerRow - 1
        /\ Len(input) % bytesPerRow = 0
        /\ \A r \in 1..(Len(input) \div bytesPerRow) : input[r * bytesPerRow] = "\n"
        /\ lineAt % bytesPerRow = 0
        /\ \A k \in DOMAIN emitted :
              LET e == emitted[k]
                  v == ddi[e.var]
              IN /\ e.line % bytesPerRow = 0
                 /\ e.line + v.End < e.line + bytesPerRow
                 /\ Len(e.chars) = v.End - v.Start + 1
                 /\ "\n" \notin Range(e.chars)

\* two rows encoded with a dictionary whose last variable is not the one
\* that ends the row
C29_Witness ==
    /\ epc = "returned" /\ bulkErr = "nil"
    /\ Len(ddi) = 2 /\ ddi[2].End < ddi[1].End
    /\ bytesPerRow = 4 /\ Len(input) = 8
    /\ Len(emitted) = 4

(***************************************************************************)
(* Claims about the byte ranges of the jobs                                *)
(***************************************************************************)
\* the bytes job reads: from FirstByte(job) up to, not including, EndByte(job)
FirstByte(job) == job.StartAtRow * bytesPerRow
EndByte(job) == (job.StartAtRow + job.RowsToRead) * bytesPerRow

\* C30: every job sent has at least one row and at most maxBytesPerJob
\* bytes, its bytes lie inside the file, and the bytes of two jobs do not
\* overlap.
C30_JobsInsideFile ==
    \A i \in DOMAIN sent :
        /\ sent[i].RowsToRead >= 1
        /\ sent[i].RowsToRead * bytesPerRow <= maxBperJob
        /\ 0 <= FirstByte(sent[i])
        /\ EndByte(sent[i]) <= totBytes
        /\ \A j \in DOMAIN sent :
              i /= j => \/ EndByte(sent[i]) <= FirstByte(sent[j])
                        \/ EndByte(sent[j]) <= FirstByte(sent[i])

\* a file that ends with a partial row, cut into three jobs
C30_Witness ==
    /\ pc = "none" /\ jmpc = "returned" /\ jmErr = "nil"
    /\ totBytes % bytesPerRow /= 0
    /\ Len(sent) = 3
    /\ EndByte(sent[3]) < totBytes

(***************************************************************************)
(* Claims about NewDumpWriter                                              *)
(***************************************************************************)
\* C31: when NewDumpWriter returns an error for the schema file or for an
\* insertion file it could not create, nothing it made is left: no file of
\* the run exists and the output directory does not exist.
C31_FailedDumpWriterLeavesNothing ==
    (ExitTopic = "DumpWriter"
        /\ exitMsg[2] \in {"create schema file", "create insertion file"}) =>
        /\ fexists = {}
        /\ fopen = {}
        /\ ~dirExists

(***************************************************************************)
(* Claims about the order of the blocks in a file                          *)
(***************************************************************************)
\* C32: what a file holds is a sequence of whole blocks: every entry is the
\* DDL or a block that a parser sent on parsedBlockStream and a writer
\* received, as it was sent.  (That the blocks of a file may stand out of
\* row order is shown by the state C32_Witness.)
C32_BlocksWrittenWhole ==
    \A f \in DOMAIN content : \A k \in DOMAIN content[f] :
        \/ content[f][k] = DDL
        \/ /\ CopiesIn(content[f][k], published) > 0
           /\ CopiesIn(content[f][k], received) > 0
           /\ \E i \in DOMAIN sent : content[f][k] = BulkInsert(sent[i])

\* one output file, one writer: the block of a later job stands before the
\* block of an earlier one
C32_Witness ==
    /\ ~makeItDir /\ Len(dw.OutFiles) = 1 /\ nParsers >= 2
    /\ \E k \in DOMAIN content[0] : \E l \in DOMAIN content[0] :
          /\ k < l
          /\ content[0][k] /= DDL /\ content[0][l] /= DDL
          /\ content[0][k][2] > content[0][l][2]

(***************************************************************************)
(* Claims about the closing of parsedBlockStream                           *)
(***************************************************************************)
\* C33: no goroutine panics on parsedBlockStream, by a send on the closed
\* channel or by a second close; the channel is closed only by the closing
\* goroutine, which is then done, and only when every parser has returned
\* and holds no result; a run that reports success has closed it.
C33_ClosedOnceAfterParsers ==
    /\ ExitTopic /= "panic"
    /\ parsedClosed =>
          /\ cpc = "done"
          /\ \A p \in DOMAIN ppc : ParserReturned(p) /\ pres[p] = NoResult
    /\ cpc = "done" => parsedClosed
    /\ Success => parsedClosed

\* the channel closed after two parsers that both sent a block returned
C33_Witness ==
    /\ parsedClosed /\ cpc = "done"
    /\ nParsers >= 2
    /\ \A p \in DOMAIN ppc : ppc[p] = "returned"
    /\ BagCardinality(published) >= 2

(***************************************************************************)
(* Claims about the sizing of the jobs                                     *)
(***************************************************************************)
\* C34: for a file with at least one whole row, the MaxBytesPerJob that
\* NewJobConfig computed passes the validation of MakeParsingJobsStream:
\* the job maker does not return an error.
C34_ComputedSizingIsValid ==
    (totBytes >= bytesPerRow /\ jmpc \in {"loop", "returned", "done"})
        => jmErr = "nil"

(***************************************************************************)
(* Claims about panics of the encoder                                      *)
(***************************************************************************)
\* C35: with a dictionary whose spans all satisfy 1 <= Start <= End <=
\* row width - 1, whatever the decimal places, the encoding never panics:
\* it goes on or it has returned, with a block or with an error.
C35_NoPanicWhileEncoding ==
    (\A i \in DOMAIN ddi :
        1 <= ddi[i].Start /\ ddi[i].Start <= ddi[i].End /\ ddi[i].End <= bytesPerRow - 1)
        => epc /= "panic"

(***************************************************************************)
(* Claims about the file handles                                           *)
(***************************************************************************)
\* C36: when the run reports success no file that NewDumpWriter opened,
\* the schema file or an insertion file, is still open.
C36_SuccessClosesAllFiles ==
    Success => fopen = {}

(***************************************************************************)
(* Claims about the quoting of column names                                *)
(***************************************************************************)
\* C37: the CREATE TABLE made with a formatter NewDBFormatter accepted has
\* a quoting character around every column name.
C37_AcceptedDialectQuotes ==
    (dpc \in {"CreateRefTables", "CreateIndices", "Write", "returned"}) =>
        \A k \in DOMAIN tableSQL : \A i \in DOMAIN tableSQL[k].columns :
            tableSQL[k].columns[i].esc /= ""

====
